---------------------------- MODULE Spec2Model ----------------------------
(***************************************************************************)
(* Model of the stay classifier of libdrd (src/src/libdrd/a_classifier.cc):*)
(* stay clustering, the error set, the aggregate builder / validator and   *)
(* the parallel batch entry point.                                         *)
(*                                                                         *)
(* Conventions: a char is a one-character string and the NUL char is "";   *)
(* a diagnosis / procedure code is a string and the invalid code (value 0) *)
(* is ""; a Date is a record [year, month, day] and the missing date       *)
(* (value 0) is NoDate.                                                    *)
(***************************************************************************)
EXTENDS Integers, Sequences, FiniteSets, TLC

VARIABLES
    \* ---- clustering loop (ClassifyRaw's repeated Cluster calls)
    cl_input,       \* the stay sequence handed to the loop
    cl_mode,        \* ClusterMode
    cl_stays,       \* the remainder span still to be clustered
    cl_clusters,    \* the clusters returned so far, in order
    \* ---- error set under a sequence of SetError calls
    es,             \* ClassifyErrorSet: [main_error, priority, errors]
    es_calls,       \* history: the (error, priority) pairs passed to SetError
    \* ---- one worker's loop over clusters, up to the GHM decision tree
    ag_errors,      \* the ClassifyErrorSet the worker reuses
    ag_last,        \* the cluster classified last and what Aggregate did
    ag_count,       \* clusters classified so far
    \* ---- a Classify call and its worker tasks
    b_stays,        \* the stays handed to Classify
    b_mode,         \* ClusterMode
    b_old_len,      \* out_results->len when Classify is called
    b_out,          \* out_results: [slots, len]
    b_main,         \* the main thread: where it is and its locals
    b_tasks,        \* the tasks given to Async, in the order of AddTask
    b_seq,          \* a sequential ClassifyRaw pass over the same stays
    \* ---- a RunGhmTree call
    tr_stays,       \* the cluster whose aggregate RunGhmTree is called on
    tr_nodes,       \* index->ghm_nodes of the aggregate's tables
    tr,             \* the call: where it is, its locals and what it recorded
    \* ---- single calls of the later stages: arguments, then the outcome
    sv,             \* a RunGhmSeverity call
    ls,             \* a LimitSeverityWithDuration call
    gh,             \* a ClassifyGhs call
    su,             \* a CountSupplements call followed by PriceGhs
    \* ---- single calls of the other functions: arguments, then the outcome
    pg,             \* a PriceGhs(price_info, duration, death) call
    sm,             \* Summarize calls over the parts of a result sequence
    ms,             \* a FindMainStay call
    ac,             \* an Aggregate call
    rs              \* the categories the switch of CountSupplements resolved stays to

clusterVars == <<cl_input, cl_mode, cl_stays, cl_clusters>>
errVars == <<es, es_calls>>
aggVars == <<ag_errors, ag_last, ag_count>>
batchVars == <<b_stays, b_mode, b_old_len, b_out, b_main, b_tasks, b_seq>>
treeVars == <<tr_stays, tr_nodes, tr>>
classifyVars == <<treeVars, sv, ls, gh, su>>
callVars == <<pg, sm, ms, ac, rs>>
stageVars == <<classifyVars, callVars>>
vars == <<cl_input, cl_mode, cl_stays, cl_clusters, es, es_calls,
          ag_errors, ag_last, ag_count,
          b_stays, b_mode, b_old_len, b_out, b_main, b_tasks, b_seq,
          tr_stays, tr_nodes, tr, sv, ls, gh, su, pg, sm, ms, ac, rs>>

(***************************************************************************)
(* Bounds of the model                                                     *)
(***************************************************************************)
\* longest stay sequence handed to the clustering loop
MaxStays == 3
\* longest sequence of SetError calls on one error set
MaxCalls == 3
MaxClusters == 2
\* longest stay sequence handed to Classify
MaxBatch == 3
\* results in out_results before the call, when there are any
MaxOld == 1
\* nodes of a decision tree
MaxNodes == 3
\* nodes of a decision tree made of the functions 34 and 35
MaxSwapNodes == 3
\* longest stay, in days, handed to RunGhmSeverity
MaxDuration == 5
\* longest duration handed to LimitSeverityWithDuration
MaxDays == 15
\* access rules in the table of ClassifyGhs
MaxRules == 2
\* stays of a cluster handed to CountSupplements
MaxSupplementStays == 3
\* largest exb_treshold and exh_treshold of a GhsPriceInfo
MaxTreshold == 3
\* longest result sequence handed to Summarize
MaxResults == 3
\* largest cluster handed to FindMainStay
MaxMainStays == 3
\* largest cluster handed to Aggregate on its own
MaxAggregateStays == 2
\* task_size (2048 in Classify), scaled down
TaskSize == 2

(***************************************************************************)
(* Generic helpers                                                         *)
(***************************************************************************)
Max(a, b) == IF a >= b THEN a ELSE b
Min(a, b) == IF a <= b THEN a ELSE b

\* Span::Take(offset, len)
Take(s, offset, len) == SubSeq(s, offset + 1, offset + len)

RECURSIVE Concat(_)
Concat(ss) == IF ss = <<>> THEN <<>> ELSE Head(ss) \o Concat(Tail(ss))

SeqsUpTo(S, n) == UNION {[1..k -> S] : k \in 1..n}

(***************************************************************************)
(* Dates                                                                   *)
(***************************************************************************)
MkDate(y, m, d) == [year |-> y, month |-> m, day |-> d]
NoDate == MkDate(0, 0, 0)

\* Date::value: the union's integer, which orders dates chronologically
DateValue(date) == date.year * 65536 + date.month * 256 + date.day

IsLeapYear(y) == (y % 4 = 0 /\ y % 100 # 0) \/ y % 400 = 0
DaysInMonth(y, m) ==
    IF m = 2 THEN (IF IsLeapYear(y) THEN 29 ELSE 28)
    ELSE IF m \in {4, 6, 9, 11} THEN 30 ELSE 31

\* Date::IsValid: a date of the calendar
DateIsValid(date) ==
    /\ date.month >= 1 /\ date.month <= 12
    /\ date.day >= 1 /\ date.day <= DaysInMonth(date.year, date.month)

\* Date::ToJulianDays
ToJulianDays(date) ==
    LET adjust == IF date.month < 3 THEN 1 ELSE 0
        year == date.year + 4800 - adjust
        month == date.month + 12 * adjust - 3
    IN date.day + ((153 * month + 2) \div 5) + 365 * year - 32045
       + (year \div 4) - (year \div 100) + (year \div 400)

\* Date - Date: the number of days between two dates
DateDiff(date1, date2) == ToJulianDays(date1) - ToJulianDays(date2)

(***************************************************************************)
(* Bytes                                                                   *)
(***************************************************************************)
\* a & b on unsigned bytes
RECURSIVE BitAnd(_, _)
BitAnd(a, b) ==
    IF a = 0 \/ b = 0 THEN 0
    ELSE (a % 2) * (b % 2) + 2 * BitAnd(a \div 2, b \div 2)

\* a sparse byte array: the bytes not listed are 0
ByteAt(raw, idx) == IF idx \in DOMAIN raw THEN raw[idx] ELSE 0

(***************************************************************************)
(* Stays                                                                   *)
(***************************************************************************)
\* enum class Sex: Male is 0, Female the next value
Male == 0
Female == 1

\* A well-formed single stay: every check of CheckMainErrors passes on it.
BaseStay ==
    [bill_id |-> 1, stay_id |-> 1,
     sex |-> Male,
     birthdate |-> MkDate(1980, 3, 5),
     entry |-> [date |-> MkDate(2016, 1, 10), mode |-> "8", origin |-> ""],
     exit |-> [date |-> MkDate(2016, 1, 13), mode |-> "8", destination |-> ""],
     session_count |-> 0,
     error_mask |-> {},
     main_diagnosis |-> "A000",
     linked_diagnosis |-> "",
     diagnoses |-> <<>>,
     procedures |-> <<>>,
     gestational_age |-> 0,
     igs2 |-> 0,
     newborn_weight |-> 0,
     unit |-> 10002,
     bed_authorization |-> 0]

ClusterModes == {"StayModes", "BillId", "Disable"}

\* Stays that differ in the fields the clustering policies read.
ClusterStays ==
    {[BaseStay EXCEPT !.bill_id = b, !.stay_id = s, !.session_count = n,
                      !.entry.mode = m] :
        b \in {1, 2}, s \in {1, 2}, n \in {0, 1}, m \in {"6", "8"}}
    \cup {[BaseStay EXCEPT !.stay_id = s, !.entry.mode = "0"] : s \in {1, 2}}

(***************************************************************************)
(* Stay clustering                                                         *)
(***************************************************************************)
AreStaysCompatible_NoSessionTest(stay1, stay2, cluster_mode) ==
    CASE cluster_mode = "StayModes" ->
            /\ stay2.stay_id = stay1.stay_id
            /\ stay2.session_count = 0
            /\ (stay2.entry.mode = "6" \/ stay2.entry.mode = "0")
      [] cluster_mode = "BillId" -> stay2.bill_id = stay1.bill_id
      [] cluster_mode = "Disable" -> FALSE

AreStaysCompatible_DisableJoins(stay1, stay2, cluster_mode) ==
    CASE cluster_mode = "StayModes" ->
            /\ stay1.session_count = 0
            /\ stay2.stay_id = stay1.stay_id
            /\ stay2.session_count = 0
            /\ (stay2.entry.mode = "6" \/ stay2.entry.mode = "0")
      [] cluster_mode = "BillId" -> stay2.bill_id = stay1.bill_id
      [] cluster_mode = "Disable" -> stay2.bill_id = stay1.bill_id

AreStaysCompatible(stay1, stay2, cluster_mode) ==
    CASE cluster_mode = "StayModes" ->
            /\ stay1.session_count = 0
            /\ stay2.stay_id = stay1.stay_id
            /\ stay2.session_count = 0
            /\ (stay2.entry.mode = "6" \/ stay2.entry.mode = "0")
      [] cluster_mode = "BillId" -> stay2.bill_id = stay1.bill_id
      [] cluster_mode = "Disable" -> FALSE

\* the while loop of Cluster: agg_len grows while the next stay is compatible
RECURSIVE ClusterLen(_, _, _)
ClusterLen(stays, cluster_mode, agg_len) ==
    IF agg_len < Len(stays)
       /\ AreStaysCompatible(stays[agg_len], stays[agg_len + 1], cluster_mode)
    THEN ClusterLen(stays, cluster_mode, agg_len + 1)
    ELSE agg_len

\* a Cluster that tests the next stay once (an if in place of the while)
Cluster_IfNotWhile(stays, cluster_mode) ==
    LET agg_len == IF 1 < Len(stays)
                      /\ AreStaysCompatible(stays[1], stays[2], cluster_mode)
                   THEN 2 ELSE 1
    IN [cluster |-> Take(stays, 0, agg_len),
        remainder |-> Take(stays, agg_len, Len(stays) - agg_len)]

\* a Cluster whose remainder starts one stay too late
Cluster_SkipOne(stays, cluster_mode) ==
    LET agg_len == ClusterLen(stays, cluster_mode, 1)
    IN [cluster |-> Take(stays, 0, agg_len),
        remainder |-> Take(stays, agg_len + 1, Len(stays) - agg_len - 1)]

\* Cluster(stays, cluster_mode, &remainder): the cluster and the remainder
Cluster(stays, cluster_mode) ==
    LET agg_len == ClusterLen(stays, cluster_mode, 1)
    IN [cluster |-> Take(stays, 0, agg_len),
        remainder |-> Take(stays, agg_len, Len(stays) - agg_len)]

(***************************************************************************)
(* The error set                                                           *)
(***************************************************************************)
EmptyErrorSet == [main_error |-> 0, priority |-> 0, errors |-> {}]

\* SetError(error_set, error, priority): the error set afterwards
SetError(error_set, error, priority) ==
    IF error = 0 THEN error_set
    ELSE LET promote == \/ error_set.main_error = 0
                        \/ priority > error_set.priority
                        \/ error < error_set.main_error
         IN [main_error |-> IF promote THEN error ELSE error_set.main_error,
             priority |-> IF promote THEN priority ELSE error_set.priority,
             errors |-> error_set.errors \cup {error}]

(***************************************************************************)
(* GHM codes                                                               *)
(***************************************************************************)
MkGhm(cmd, type, seq, mode) == [cmd |-> cmd, type |-> type, seq |-> seq, mode |-> mode]
\* GhmCode {}: the invalid (value 0) code
NoGhm == MkGhm(0, "", 0, "")
\* GhmCode::FromString("90Z00Z") and GhmCode::FromString("90Z03Z")
Ghm90Z00Z == MkGhm(90, "Z", 0, "Z")
Ghm90Z03Z == MkGhm(90, "Z", 3, "Z")
GhmIsValid(ghm) == ghm # NoGhm
\* GhmCode::IsError: the code is one of the 90Z sentinels
GhmIsError(ghm) == ghm.cmd = 90

(***************************************************************************)
(* Reference tables (immutable, parsed by the table loader)                *)
(***************************************************************************)
\* a null TableIndex pointer: no table at all
NullIndex == [limit_dates |-> <<NoDate, NoDate>>, diagnoses |-> <<>>, procedures |-> <<>>]

Jan16(d) == MkDate(2016, 1, d)

DiagEntry(code, raw_male, raw_female, cmd, jump, severity) ==
    [diag |-> code,
     exclusion_set_idx |-> 0,
     cma_exclusion_mask |-> [offset |-> 0, value |-> 0],
     attributes |-> <<[raw |-> raw_male, cmd |-> cmd, jump |-> jump,
                       severity |-> severity],
                      [raw |-> raw_female, cmd |-> cmd, jump |-> jump,
                       severity |-> severity]>>]

\* a sparse byte array with the listed bytes set
Bytes1(i, v) == i :> v
Bytes2(i, v, j, w) == i :> v @@ j :> w
Bytes3(i, v, j, w, k, x) == i :> v @@ j :> w @@ k :> x

\* The diagnosis dictionary of the table index. The address of an entry is
\* its position in the array.
IndexDiagnoses ==
    <<DiagEntry("A000", Bytes2(0, 6, 1, 1), Bytes2(0, 6, 1, 1), 6, 1, 0),
      DiagEntry("B000", Bytes2(0, 18, 1, 2), Bytes2(0, 18, 1, 2), 18, 2, 2),
      \* obsolete diagnosis
      DiagEntry("C000", Bytes3(0, 6, 1, 1, 5, 2), Bytes3(0, 6, 1, 1, 5, 2), 6, 1, 0),
      \* imprecise diagnosis (raw[0] = 0, raw[1] = 0) and its variants
      DiagEntry("D000", Bytes1(1, 0), Bytes1(1, 0), 0, 0, 0),
      DiagEntry("D003", Bytes1(1, 3), Bytes1(1, 3), 0, 3, 0),
      DiagEntry("E000", Bytes2(0, 23, 1, 14), Bytes2(0, 23, 1, 14), 23, 14, 0),
      \* age related diagnoses
      DiagEntry("O800", Bytes3(0, 14, 1, 1, 19, 16), Bytes3(0, 14, 1, 1, 19, 16), 14, 1, 0),
      DiagEntry("P000", Bytes3(0, 15, 1, 1, 19, 8), Bytes3(0, 15, 1, 1, 19, 8), 15, 1, 1),
      DiagEntry("P95", Bytes2(0, 15, 1, 2), Bytes2(0, 15, 1, 2), 15, 2, 0),
      \* trauma diagnoses (byte 21)
      DiagEntry("S720", Bytes3(0, 8, 1, 1, 21, 4), Bytes3(0, 8, 1, 1, 21, 4), 8, 1, 0),
      DiagEntry("T000", Bytes3(0, 21, 1, 1, 21, 32), Bytes3(0, 21, 1, 1, 21, 32), 21, 1, 0),
      DiagEntry("T002", Bytes3(0, 21, 1, 1, 21, 2), Bytes3(0, 21, 1, 1, 21, 2), 21, 1, 0),
      \* sessions (byte 8)
      DiagEntry("Z491", Bytes3(0, 28, 1, 1, 8, 2), Bytes3(0, 28, 1, 1, 8, 2), 28, 1, 0),
      DiagEntry("Z511", Bytes2(0, 28, 1, 2), Bytes2(0, 28, 1, 2), 28, 2, 0),
      \* social circumstances
      DiagEntry("Z515", Bytes2(0, 23, 1, 1), Bytes2(0, 23, 1, 1), 23, 1, 0)>>

ProcEntry(code, phase, from, to, activities, bytes) ==
    [proc |-> code, phase |-> phase, limit_dates |-> <<from, to>>,
     activities |-> activities, bytes |-> bytes]

FarPast == MkDate(1900, 1, 1)
FarFuture == MkDate(2100, 1, 1)

\* The procedure dictionary of the table index (address = position).
IndexProcedures ==
    <<ProcEntry("AAFA001", 0, FarPast, FarFuture, 2, Bytes1(1, 1)),
      \* type-determining procedure (bytes[0] & 0x80, not bytes[23] & 0x80)
      ProcEntry("BBFA002", 0, FarPast, FarFuture, 2, Bytes1(0, 128)),
      \* known in phase 1 only
      ProcEntry("CCFA003", 1, FarPast, FarFuture, 2, Bytes1(1, 1)),
      \* valid from 12 to 20 january 2016; a later entry takes over
      ProcEntry("DDFA004", 0, Jan16(12), Jan16(20), 2, Bytes1(41, 2)),
      ProcEntry("DDFA004", 0, Jan16(20), FarFuture, 2, Bytes1(1, 1)),
      \* not for women (bytes[43] & 0x40), newborn only (bytes[44] & 0x20)
      ProcEntry("EEFA005", 0, FarPast, FarFuture, 2, Bytes2(43, 64, 44, 32)),
      \* main-stay priorities (bytes[38] & 0x2, bytes[39] & 0x80, & 0x40)
      ProcEntry("FFFA006", 0, FarPast, FarFuture, 2, Bytes1(38, 2)),
      ProcEntry("GGFA007", 0, FarPast, FarFuture, 2, Bytes1(39, 128)),
      ProcEntry("HHFA008", 0, FarPast, FarFuture, 2, Bytes1(39, 64)),
      \* tolerates a session diagnosis without session (bytes[44] & 0x40)
      ProcEntry("JJFA009", 0, FarPast, FarFuture, 2, Bytes1(44, 64)),
      \* reanimation procedure of the first list (bytes[27] & 0x10)
      ProcEntry("KKFA010", 0, FarPast, FarFuture, 2, Bytes1(27, 16))>>

\* GhmCode::Root(): the code without its mode
GhmRoot(ghm) == [cmd |-> ghm.cmd, type |-> ghm.type, seq |-> ghm.seq]

TestNode(function, p0, p1, children_idx, children_count) ==
    [type |-> "Test", function |-> function, params |-> <<p0, p1>>,
     children_idx |-> children_idx, children_count |-> children_count]
GhmNode(ghm, error) == [type |-> "Ghm", ghm |-> ghm, error |-> error]

\* The GHM decision tree of the table index; node indices count from 0.
IndexGhmNodes ==
    <<\* 0: is byte 0 of the main diagnosis 28 (sessions)?
      TestNode(13, 0, 28, 1, 2),
      \* 1: is there a procedure with bytes[0] & 0x80?
      TestNode(2, 0, 128, 3, 2),
      \* 2: sessions
      GhmNode(MkGhm(28, "Z", 4, "Z"), 0),
      \* 3: is the duration below 2 nights?
      TestNode(22, 0, 2, 5, 2),
      \* 4: surgical
      GhmNode(MkGhm(6, "C", 4, ""), 0),
      \* 5, 6: medical, with and without a severity letter
      GhmNode(MkGhm(6, "M", 3, ""), 0),
      GhmNode(MkGhm(6, "M", 2, "A"), 0)>>

RootEntry(cmd, type, seq, allow_ambulatory, short_duration_treshold, young_age_treshold, young_severity_limit, old_age_treshold, old_severity_limit) ==
    [ghm_root |-> [cmd |-> cmd, type |-> type, seq |-> seq],
     allow_ambulatory |-> allow_ambulatory,
     short_duration_treshold |-> short_duration_treshold,
     young_age_treshold |-> young_age_treshold,
     young_severity_limit |-> young_severity_limit,
     old_age_treshold |-> old_age_treshold,
     old_severity_limit |-> old_severity_limit,
     childbirth_severity_list |-> 0,
     cma_exclusion_mask |-> [offset |-> 0, value |-> 0]]

IndexGhmRoots ==
    <<RootEntry(28, "Z", 4, TRUE, 0, 0, 0, 0, 0),
      RootEntry(6, "C", 4, TRUE, 0, 2, 2, 80, 2),
      RootEntry(6, "M", 3, FALSE, 2, 2, 2, 80, 2),
      RootEntry(6, "M", 2, FALSE, 0, 0, 0, 0, 0)>>

\* GhmToGhsInfo (GhsAccessInfo): the access rules from a GHM to a GHS
GhsEntry(ghm, ghs, unit_authorization, bed_authorization, minimal_duration, minimal_age) ==
    [ghm |-> ghm, ghs |-> ghs,
     unit_authorization |-> unit_authorization,
     bed_authorization |-> bed_authorization,
     minimal_duration |-> minimal_duration, minimal_age |-> minimal_age,
     main_diagnosis_mask |-> [offset |-> 0, value |-> 0],
     diagnosis_mask |-> [offset |-> 0, value |-> 0],
     procedure_masks |-> <<>>]

IndexGhs ==
    <<GhsEntry(MkGhm(28, "Z", 4, "Z"), 9605, 0, 0, 0, 0),
      GhsEntry(MkGhm(6, "M", 3, "1"), 1900, 4, 0, 2, 0),
      GhsEntry(MkGhm(6, "M", 3, "1"), 1901, 0, 0, 0, 0),
      GhsEntry(MkGhm(6, "M", 3, "2"), 1902, 0, 0, 0, 0),
      GhsEntry(MkGhm(6, "M", 3, "T"), 1905, 0, 0, 0, 0),
      GhsEntry(MkGhm(6, "M", 2, "A"), 1910, 0, 0, 0, 0),
      GhsEntry(MkGhm(6, "C", 4, "1"), 1800, 0, 0, 0, 0),
      GhsEntry(MkGhm(6, "C", 4, "J"), 1801, 0, 0, 0, 0)>>

\* GhsPriceInfo of the public sector
PriceEntry(ghs, price_cents, exb_treshold, exb_cents, exh_treshold, exh_cents, flags) ==
    [ghs |-> ghs, price_cents |-> price_cents,
     exb_treshold |-> exb_treshold, exb_cents |-> exb_cents,
     exh_treshold |-> exh_treshold, exh_cents |-> exh_cents, flags |-> flags]

IndexGhsPrices ==
    <<PriceEntry(9605, 30000, 0, 0, 0, 0, 0),
      PriceEntry(1900, 250000, 2, 20000, 10, 15000, 0),
      PriceEntry(1901, 200000, 2, 20000, 10, 15000, 0),
      PriceEntry(1902, 300000, 3, 50000, 12, 15000, 1),
      PriceEntry(1905, 80000, 0, 0, 1, 15000, 0),
      PriceEntry(1800, 400000, 2, 90000, 8, 20000, 0),
      PriceEntry(1801, 150000, 0, 0, 0, 0, 0)>>

\* SupplementCounters: one counter per supplement type
SupplementTypes == {"rea", "reasi", "si", "src", "nn1", "nn2", "nn3", "rep"}
NoSupplements == [t \in SupplementTypes |-> 0]
IndexSupplementPrices ==
    [t \in SupplementTypes |->
        CASE t = "rea" -> 80000 [] t = "reasi" -> 40000 [] t = "si" -> 40000
          [] t = "src" -> 32000 [] t = "nn1" -> 30000 [] t = "nn2" -> 45000
          [] t = "nn3" -> 90000 [] OTHER -> 91000]

\* AuthorizationInfo: the function of each unit authorization type
IndexAuthorizations ==
    <<[scope |-> "Unit", code |-> 1, function |-> 4],
      [scope |-> "Unit", code |-> 2, function |-> 8],
      [scope |-> "Unit", code |-> 3, function |-> 6],
      [scope |-> "Unit", code |-> 4, function |-> 1],
      [scope |-> "Unit", code |-> 5, function |-> 2],
      [scope |-> "Unit", code |-> 6, function |-> 3],
      [scope |-> "Unit", code |-> 13, function |-> 9]>>

\* The one table index of the table set, valid for exit dates in
\* [limit_dates[0], limit_dates[1])
TheIndex ==
    [limit_dates |-> <<MkDate(2015, 3, 1), MkDate(2017, 3, 1)>>,
     ghm_nodes |-> IndexGhmNodes,
     diagnoses |-> IndexDiagnoses,
     exclusions |-> <<[raw |-> <<>>]>>,
     procedures |-> IndexProcedures,
     ghm_roots |-> IndexGhmRoots,
     gnn_cells |-> <<>>,
     cma_cells |-> <<<<>>, <<>>, <<>>>>,
     ghs |-> IndexGhs,
     authorizations |-> IndexAuthorizations,
     src_pairs |-> <<<<>>, <<>>>>,
     ghs_prices |-> IndexGhsPrices,
     supplement_prices |-> IndexSupplementPrices]

TheTableSet == <<TheIndex>>

\* TableSet::FindIndex(date): the index valid at the date, or null
FindIndex(table_set, date) ==
    LET hits == {i \in 1..Len(table_set) :
                    /\ DateValue(date) >= DateValue(table_set[i].limit_dates[1])
                    /\ DateValue(date) < DateValue(table_set[i].limit_dates[2])}
    IN IF hits = {} THEN NullIndex
       ELSE table_set[CHOOSE i \in hits : \A j \in hits : j <= i]

\* TableIndex::FindDiagnosis(code): the address of the entry, or 0 (null)
FindDiagnosis(index, code) ==
    LET hits == {i \in 1..Len(index.diagnoses) : index.diagnoses[i].diag = code}
    IN IF code = "" \/ hits = {} THEN 0
       ELSE CHOOSE i \in hits : \A j \in hits : i <= j

\* TableIndex::FindProcedure(code): the entries with the code
FindProcedures(index, code) ==
    {i \in 1..Len(index.procedures) : index.procedures[i].proc = code}

\* TableIndex::FindProcedure(code, phase, date): the address of the entry
\* with the phase that is valid at the date, or 0 (null)
FindProcedure(index, code, phase, date) ==
    LET hits == {i \in FindProcedures(index, code) :
                    /\ index.procedures[i].phase = phase
                    /\ DateValue(date) >= DateValue(index.procedures[i].limit_dates[1])
                    /\ DateValue(date) < DateValue(index.procedures[i].limit_dates[2])}
    IN IF hits = {} THEN 0
       ELSE CHOOSE i \in hits : \A j \in hits : i <= j

\* DiagnosisInfo::Attributes(sex)
Attributes(diag_info, sex) == diag_info.attributes[sex + 1]

\* GetDiagnosisByte(sex, diag_info, byte_idx)
GetDiagnosisByte(sex, diag_info, byte_idx) ==
    ByteAt(Attributes(diag_info, sex).raw, byte_idx)

\* GetDiagnosisByte(index, sex, diag, byte_idx): 0 for an unknown diagnosis
GetDiagnosisByteOf(index, sex, diag, byte_idx) ==
    LET p == FindDiagnosis(index, diag)
    IN IF p = 0 THEN 0 ELSE GetDiagnosisByte(sex, index.diagnoses[p], byte_idx)

\* TestDiagnosis(sex, diag_info, offset, value)
TestDiagnosis(sex, diag_info, offset, value) ==
    BitAnd(GetDiagnosisByte(sex, diag_info, offset), value) # 0

\* TestDiagnosis(index, sex, diag, offset, value)
TestDiagnosisOf(index, sex, diag, offset, value) ==
    BitAnd(GetDiagnosisByteOf(index, sex, diag, offset), value) # 0

\* GetProcedureByte(proc_info, byte_idx) and TestProcedure(proc_info, ...)
GetProcedureByte(proc_info, byte_idx) == ByteAt(proc_info.bytes, byte_idx)
TestProcedure(proc_info, offset, value) ==
    BitAnd(GetProcedureByte(proc_info, offset), value) # 0

\* DiagnosisCode::Matches(prefix): the code starts with the prefix
Matches(code, prefix) ==
    /\ Len(code) >= Len(prefix)
    /\ SubSeq(code, 1, Len(prefix)) = prefix

(***************************************************************************)
(* Errors raised by a check: the SetError calls it makes, in order.        *)
(* blocking: the call's result is and-ed into the caller's valid flag.     *)
(***************************************************************************)
\* valid &= SetError(out_errors, error): nothing is recorded for error 0
Raise(cond, error) ==
    IF cond /\ error # 0
    THEN <<[error |-> error, priority |-> 1, blocking |-> TRUE]>> ELSE <<>>
\* SetError(out_errors, error, priority) with the result dropped
Note(cond, error, priority) ==
    IF cond /\ error # 0
    THEN <<[error |-> error, priority |-> priority, blocking |-> FALSE]>> ELSE <<>>

\* the error set after the SetError calls of raised, in order
RECURSIVE ApplyErrors(_, _)
ApplyErrors(error_set, raised) ==
    IF raised = <<>> THEN error_set
    ELSE ApplyErrors(SetError(error_set, Head(raised).error, Head(raised).priority),
                     Tail(raised))

\* the valid flag after the calls: no blocking call was made
AllValid(raised) == \A i \in 1..Len(raised) : ~raised[i].blocking
ErrorsOf(raised) == {raised[i].error : i \in 1..Len(raised)}

(***************************************************************************)
(* CheckMainErrors                                                         *)
(***************************************************************************)
\* CheckDateErrors(malformed_flag, date, error_codes)
CheckDateErrors(malformed_flag, date, error_codes) ==
    IF malformed_flag THEN Raise(TRUE, error_codes[1])
    ELSE IF date = NoDate THEN Raise(TRUE, error_codes[2])
    ELSE IF ~DateIsValid(date) THEN Raise(TRUE, error_codes[3])
    ELSE <<>>

birthdate_errors == <<14, 13, 39>>
entry_date_errors == <<20, 19, 21>>
exit_date_errors == <<29, 28, 30>>

\* the origin switch with the missing origin in the default case
CheckEntryOrigin_MissingIsDefault(stay) ==
    IF stay.entry.origin \in {"1", "2", "3", "4", "6", "R"} THEN <<>>
    ELSE Raise(TRUE, 25)

\* the origin switch shared by entry modes '0', '6' and '7'
CheckEntryOrigin(stay) ==
    IF stay.entry.origin \in {"1", "2", "3", "4", "6", "R"} THEN <<>>
    ELSE IF stay.entry.origin = "" THEN Raise(TRUE, 53)
    ELSE Raise(TRUE, 25)

CheckEntryMode(stay) ==
    IF stay.error_mask \cap {"MalformedEntryMode", "MalformedEntryOrigin"} # {}
    THEN Raise(TRUE, 25)
    ELSE IF stay.entry.mode \in {"0", "6"}
    THEN Raise(stay.entry.mode = "0" /\ stay.entry.origin = "6", 25)
         \o Raise(stay.entry.mode = "6" /\ stay.entry.origin = "R", 25)
         \o CheckEntryOrigin(stay)
    ELSE IF stay.entry.mode = "7" THEN CheckEntryOrigin(stay)
    ELSE IF stay.entry.mode = "8"
    THEN Raise(stay.entry.origin \notin {"", "5", "7"}, 25)
    ELSE IF stay.entry.mode = "" THEN Raise(TRUE, 24)
    ELSE Raise(TRUE, 25)

CheckExitMode(stay) ==
    IF stay.error_mask \cap {"MalformedExitMode", "MalformedExitDestination"} # {}
    THEN Raise(TRUE, 34)
    ELSE IF stay.exit.mode \in {"0", "6", "7"}
    THEN (IF stay.exit.destination \in {"1", "2", "3", "4", "6"} THEN <<>>
          ELSE IF stay.exit.destination = "" THEN Raise(TRUE, 54)
          ELSE Raise(TRUE, 34))
    ELSE IF stay.exit.mode = "8"
    THEN Raise(stay.exit.destination \notin {"", "7"}, 34)
    ELSE IF stay.exit.mode = "9" THEN Raise(stay.exit.destination # "", 34)
    ELSE IF stay.exit.mode = "" THEN Raise(TRUE, 33)
    ELSE Raise(TRUE, 34)

\* the body of the per-stay loop
CheckStayErrors(stay, stays_len) ==
    \* Sex
    (IF "MalformedSex" \in stay.error_mask THEN Raise(TRUE, 17)
     ELSE IF stay.sex # Male /\ stay.sex # Female
     THEN Raise(TRUE, IF stay.sex # 0 THEN 17 ELSE 16)
     ELSE <<>>)
    \* Birthdate
    \o CheckDateErrors("MalformedBirthdate" \in stay.error_mask,
                       stay.birthdate, birthdate_errors)
    \o Raise(/\ DateValue(stay.birthdate) > DateValue(stay.entry.date)
             /\ DateIsValid(stay.birthdate) /\ DateIsValid(stay.entry.date), 15)
    \* Entry and exit dates
    \o CheckDateErrors("MalformedEntryDate" \in stay.error_mask,
                       stay.entry.date, entry_date_errors)
    \o CheckDateErrors("MalformedExitDate" \in stay.error_mask,
                       stay.exit.date, exit_date_errors)
    \o Raise(/\ DateValue(stay.exit.date) < DateValue(stay.entry.date)
             /\ DateIsValid(stay.entry.date) /\ DateIsValid(stay.exit.date), 32)
    \* Entry mode and origin, exit mode and destination
    \o CheckEntryMode(stay)
    \o CheckExitMode(stay)
    \* Sessions
    \o (IF "MalformedSessionCount" \in stay.error_mask THEN Raise(TRUE, 36)
        ELSE Raise(stays_len > 1 /\ stay.session_count > 0, 37)
             \o Note(stay.session_count < 0 \/ stay.session_count >= 32, 66, 0))
    \* Diagnoses
    \o (IF "MalformedMainDiagnosis" \in stay.error_mask THEN Raise(TRUE, 41)
        ELSE Raise(stay.main_diagnosis = "", 40))
    \o Raise("MalformedLinkedDiagnosis" \in stay.error_mask, 51)
    \o Raise("MalformedAssociatedDiagnosis" \in stay.error_mask, 42)

\* the body of the continuity loop, for stays[i - 1] and stays[i]
CheckContinuity(prev, stay) ==
    Raise(stay.sex # prev.sex /\ (stay.sex = Male \/ stay.sex = Female), 46)
    \o Raise(stay.birthdate # prev.birthdate /\ DateIsValid(stay.birthdate), 45)
    \o (IF stay.entry.mode = "0"
        THEN (IF prev.exit.mode # "0" THEN Raise(TRUE, 27) \o Note(TRUE, 49, 1)
              ELSE Raise(/\ stay.entry.date # prev.exit.date
                         /\ DateDiff(stay.entry.date, prev.exit.date) # 1, 50))
        ELSE IF stay.entry.mode = "6"
        THEN (IF stay.entry.origin # "1" \/ prev.exit.mode # "6"
              THEN Raise(TRUE, 27) \o Note(TRUE, 49, 1)
              ELSE Raise(stay.entry.date # prev.exit.date, 23))
        ELSE Raise(TRUE, 27))

\* CheckMainErrors(stays, out_errors): the SetError calls it makes
CheckMainErrors(stays) ==
    Raise(stays[1].entry.mode = "6" /\ stays[1].entry.origin = "1", 26)
    \o Raise(/\ stays[Len(stays)].exit.mode = "6"
             /\ stays[Len(stays)].exit.destination = "1", 35)
    \o Concat([i \in 1..Len(stays) |-> CheckStayErrors(stays[i], Len(stays))])
    \o Concat([i \in 1..(Len(stays) - 1) |-> CheckContinuity(stays[i], stays[i + 1])])

(***************************************************************************)
(* Aggregate                                                               *)
(***************************************************************************)
BitOr(a, b) == a + b - BitAnd(a, b)
BitAndNot(a, b) == a - BitAnd(a, b)

\* ComputeAge without the test on the month and the day
ComputeAge_YearDifference(date, birthdate) == date.year - birthdate.year

\* ComputeAge(date, birthdate)
ComputeAge(date, birthdate) ==
    (date.year - birthdate.year)
    - (IF \/ date.month < birthdate.month
          \/ (date.month = birthdate.month /\ date.day < birthdate.day)
       THEN 1 ELSE 0)

\* the value of an object that was declared and never assigned
Indeterminate == "indeterminate"

\* ClassifyAggregate agg; as declared by ClassifyRaw
UninitAggregate ==
    [index |-> Indeterminate, stays |-> Indeterminate, stay |-> Indeterminate,
     age |-> Indeterminate, age_days |-> Indeterminate, duration |-> Indeterminate,
     diagnoses |-> Indeterminate, procedures |-> Indeterminate,
     proc_activities |-> Indeterminate]

\* std::sort on an array of addresses
RECURSIVE SortInsert(_, _)
SortInsert(sorted, x) ==
    IF sorted = <<>> THEN <<x>>
    ELSE IF x <= Head(sorted) THEN <<x>> \o sorted
    ELSE <<Head(sorted)>> \o SortInsert(Tail(sorted), x)
RECURSIVE Sort(_)
Sort(s) == IF s = <<>> THEN <<>> ELSE SortInsert(Sort(Tail(s)), Head(s))

\* the deduplication loop: arr[++j] = arr[i] when arr[i] != arr[j], from
\* i = 1 (0-based); the array is then cut after j
\* a deduplication that compares each entry with the first one only
Deduplicate_AgainstFirst(arr) ==
    IF Len(arr) = 0 THEN arr
    ELSE <<Sort(arr)[1]>> \o SelectSeq(Tail(Sort(arr)), LAMBDA x : x # Sort(arr)[1])

RECURSIVE DedupLoop(_, _, _)
DedupLoop(arr, i, j) ==
    IF i > Len(arr) THEN SubSeq(arr, 1, j)
    ELSE IF arr[i] # arr[j]
    THEN DedupLoop([arr EXCEPT ![j + 1] = arr[i]], i + 1, j + 1)
    ELSE DedupLoop(arr, i + 1, j)
Deduplicate(arr) == IF Len(arr) = 0 THEN arr ELSE DedupLoop(Sort(arr), 2, 1)

main_diagnosis_errors == <<68, 113, 114, 115, 113, 180, 130, 133>>
linked_diagnosis_errors == <<95, 116, 117, 118, 0, 181, 131, 134>>
associate_diagnosis_errors == <<71, 0, 0, 119, 0, 182, 132, 135>>

\* CheckDiagnosisErrors(agg, diag_info, error_codes): its SetError call
CheckDiagnosisErrors(agg, diag_info, error_codes) ==
    LET raw == Attributes(diag_info, agg.stay.sex).raw
    IN IF BitAnd(ByteAt(raw, 5), 2) # 0 THEN Raise(TRUE, error_codes[1])
       ELSE IF ByteAt(raw, 0) = 0
       THEN (IF ByteAt(raw, 1) \in {0, 1, 2, 3}
             THEN Raise(TRUE, error_codes[ByteAt(raw, 1) + 2]) ELSE <<>>)
       ELSE IF ByteAt(raw, 0) = 23 /\ ByteAt(raw, 1) = 14
       THEN Raise(TRUE, error_codes[6])
       ELSE IF BitAnd(ByteAt(raw, 19), 16) # 0 /\ agg.age < 9
       THEN Raise(TRUE, error_codes[7])
       ELSE IF BitAnd(ByteAt(raw, 19), 8) # 0 /\ agg.age >= 2
       THEN Raise(TRUE, error_codes[8])
       ELSE <<>>

\* one diagnosis of a stay: the address appended (0: none) and the errors
CollectDiagnosis(agg, diag, error_codes, unknown_error) ==
    LET p == FindDiagnosis(agg.index, diag)
    IN IF p # 0
       THEN [found |-> <<p>>,
             raised |-> CheckDiagnosisErrors(agg, agg.index.diagnoses[p], error_codes)]
       ELSE [found |-> <<>>, raised |-> Raise(TRUE, unknown_error)]

NoCollect == [found |-> <<>>, raised |-> <<>>]
JoinCollect(c1, c2) == [found |-> c1.found \o c2.found, raised |-> c1.raised \o c2.raised]
RECURSIVE JoinCollects(_)
JoinCollects(cs) ==
    IF cs = <<>> THEN NoCollect ELSE JoinCollect(Head(cs), JoinCollects(Tail(cs)))

\* a per-stay loop body that lets an unknown main diagnosis pass
CollectStayDiagnoses_UnknownMainPasses(agg, stay) ==
    CollectDiagnosis(agg, stay.main_diagnosis, main_diagnosis_errors, 0)

\* the body of the per-stay loop of AppendValidDiagnoses
CollectStayDiagnoses(agg, stay) ==
    JoinCollects(
        <<CollectDiagnosis(agg, stay.main_diagnosis, main_diagnosis_errors, 67),
          IF stay.linked_diagnosis # ""
          THEN CollectDiagnosis(agg, stay.linked_diagnosis, linked_diagnosis_errors, 94)
          ELSE NoCollect>>
        \o [i \in 1..Len(stay.diagnoses) |->
              IF stay.diagnoses[i] = stay.main_diagnosis
                 \/ stay.diagnoses[i] = stay.linked_diagnosis
              THEN NoCollect
              ELSE CollectDiagnosis(agg, stay.diagnoses[i],
                                    associate_diagnosis_errors, 70)])

\* AppendValidDiagnoses(agg, out_diagnoses, out_errors)
AppendValidDiagnoses(agg, out_diagnoses) ==
    LET c == JoinCollects([i \in 1..Len(agg.stays) |->
                              CollectStayDiagnoses(agg, agg.stays[i])])
    IN [diagnoses |-> Deduplicate(out_diagnoses \o c.found), raised |-> c.raised]

\* a tolerance test that accepts an entry of the code in any phase
IsValidProcedure_AnyPhase(index, proc) == FindProcedures(index, proc.proc) # {}

\* valid_proc: std::any_of over the entries of the code, proc_info.phase ==
\* proc.phase
IsValidProcedure(index, proc) ==
    \E q \in FindProcedures(index, proc.proc) : index.procedures[q].phase = proc.phase

\* one procedure realisation of a stay in AppendValidProcedures
CollectProcedure(agg, stay, proc) ==
    LET p == FindProcedure(agg.index, proc.proc, proc.phase, stay.exit.date)
        proc_info == agg.index.procedures[p]
        extra_activities == BitAndNot(proc.activities, proc_info.activities)
        extra_3E == BitAnd(extra_activities, 62)
    IN IF p # 0
       THEN [found |-> <<p>>,
             activities |-> proc.activities,
             raised |->
                Note(BitAnd(GetProcedureByte(proc_info, 43), 64) # 0
                     /\ stay.sex = Female, 148, 0)
                \o Raise(/\ (agg.age # 0 \/ agg.age_days > 28)
                         /\ BitAnd(GetProcedureByte(proc_info, 44), 32) # 0
                         /\ (agg.stay.newborn_weight = 0
                             \/ agg.stay.newborn_weight >= 3000), 149)
                \o (IF DateValue(stay.entry.date) > DateValue(proc_info.limit_dates[2])
                    THEN Raise(TRUE, 78)
                    ELSE IF DateValue(stay.exit.date) < DateValue(proc_info.limit_dates[1])
                    THEN Raise(TRUE, 79)
                    ELSE IF \/ proc.date = NoDate
                            \/ DateValue(proc.date) < DateValue(proc_info.limit_dates[1])
                            \/ DateValue(proc.date) > DateValue(proc_info.limit_dates[2])
                    THEN (IF BitAnd(GetProcedureByte(proc_info, 41), 2) # 0
                          THEN Raise(TRUE, 142)
                          ELSE Note(proc.date # NoDate, 102, 0))
                    ELSE <<>>)
                \o (IF SubSeq(proc.proc, 1, 4) # "YYYY" /\ extra_activities # 0
                    THEN Raise(BitAndNot(extra_activities, 62) # 0, 103)
                         \o Raise(BitAnd(extra_3E, 16) # 0, 110)
                         \o Note(BitAndNot(extra_3E, 16) # 0, 111, 0)
                    ELSE <<>>)]
       ELSE [found |-> <<>>,
             activities |-> 0,
             raised |->
                \* tolerated when an entry of the code has the same phase
                Raise(~IsValidProcedure(agg.index, proc), 73)]

RECURSIVE OrAll(_)
OrAll(s) == IF s = <<>> THEN 0 ELSE BitOr(Head(s), OrAll(Tail(s)))

\* AppendValidProcedures(agg, out_procedures, out_activities, out_errors)
AppendValidProcedures(agg, out_procedures, out_activities) ==
    LET cs == Concat([i \in 1..Len(agg.stays) |->
                        [k \in 1..Len(agg.stays[i].procedures) |->
                            CollectProcedure(agg, agg.stays[i],
                                             agg.stays[i].procedures[k])]])
    IN [procedures |->
            Deduplicate(out_procedures \o Concat([k \in 1..Len(cs) |-> cs[k].found])),
        activities |->
            BitOr(out_activities, OrAll([k \in 1..Len(cs) |-> cs[k].activities])),
        raised |-> Concat([k \in 1..Len(cs) |-> cs[k].raised])]

INT_MAX == 2147483647

\* the procedure loop of FindMainStay for one stay, from procedure k on:
\* whether the function returns this stay at once, and proc_priority
RECURSIVE ScanMainStayProcedures(_, _, _, _, _)
ScanMainStayProcedures(index, stay, duration, k, proc_priority) ==
    IF k > Len(stay.procedures)
    THEN [return_stay |-> FALSE, proc_priority |-> proc_priority]
    ELSE LET proc == stay.procedures[k]
             p == FindProcedure(index, proc.proc, proc.phase, stay.exit.date)
             proc_info == index.procedures[p]
         IN IF p = 0
            THEN ScanMainStayProcedures(index, stay, duration, k + 1, proc_priority)
            ELSE IF /\ BitAnd(GetProcedureByte(proc_info, 0), 128) # 0
                    /\ BitAnd(GetProcedureByte(proc_info, 23), 128) = 0
            THEN [return_stay |-> TRUE, proc_priority |-> proc_priority]
            ELSE ScanMainStayProcedures(index, stay, duration, k + 1,
                    IF proc_priority < 3
                       /\ BitAnd(GetProcedureByte(proc_info, 38), 2) # 0
                    THEN 3
                    ELSE IF /\ proc_priority < 2 /\ duration <= 1
                            /\ BitAnd(GetProcedureByte(proc_info, 39), 128) # 0
                    THEN 2
                    ELSE IF /\ proc_priority < 1 /\ duration = 0
                            /\ BitAnd(GetProcedureByte(proc_info, 39), 64) # 0
                    THEN 1
                    ELSE proc_priority)

\* the locals of FindMainStay before the loop (stays are named by their
\* position in the cluster, 0 is the null pointer)
MainStayInit ==
    [max_duration |-> -1, zx_stay |-> 0, zx_duration |-> -1,
     trauma_stay |-> 0, last_trauma_stay |-> 0, ignore_trauma |-> FALSE,
     score_stay |-> 0, base_score |-> 0, min_score |-> INT_MAX]

\* one iteration of the loop of FindMainStay, after the procedure loop
MainStayStep(index, st, stay, pos, proc_priority) ==
    LET stay_duration == DateDiff(stay.exit.date, stay.entry.date)
        score0 == st.base_score
                  - (IF proc_priority = 3 THEN 999999
                     ELSE IF proc_priority = 2 THEN 99999
                     ELSE IF proc_priority = 1 THEN 9999 ELSE 0)
        zx_test == stay_duration > st.zx_duration /\ stay_duration >= st.max_duration
        zx_match == \/ Matches(stay.main_diagnosis, "Z515")
                    \/ Matches(stay.main_diagnosis, "Z502")
                    \/ Matches(stay.main_diagnosis, "Z503")
        trauma == TestDiagnosisOf(index, stay.sex, stay.main_diagnosis, 21, 4)
        bit20 == TestDiagnosisOf(index, stay.sex, stay.main_diagnosis, 21, 32)
        score1 == IF bit20 THEN score0 + 150 ELSE score0
        score2 == IF stay_duration = 0 THEN score1 + 2
                  ELSE IF stay_duration = 1 THEN score1 + 1 ELSE score1
        stay_score == IF TestDiagnosisOf(index, stay.sex, stay.main_diagnosis, 21, 2)
                      THEN score2 + 201 ELSE score2
    IN [max_duration |-> Max(st.max_duration, stay_duration),
        zx_stay |-> IF zx_test THEN (IF zx_match THEN pos ELSE 0) ELSE st.zx_stay,
        zx_duration |-> IF zx_test /\ zx_match THEN stay_duration ELSE st.zx_duration,
        trauma_stay |-> IF ~st.ignore_trauma /\ trauma /\ stay_duration > st.max_duration
                        THEN pos ELSE st.trauma_stay,
        last_trauma_stay |-> IF ~st.ignore_trauma /\ trauma
                             THEN pos ELSE st.last_trauma_stay,
        ignore_trauma |-> st.ignore_trauma \/ ~trauma,
        score_stay |-> IF stay_score < st.min_score THEN pos ELSE st.score_stay,
        base_score |-> IF ~bit20 /\ stay_duration >= 2
                       THEN st.base_score + 100 ELSE st.base_score,
        min_score |-> Min(st.min_score, stay_score)]

RECURSIVE MainStayLoop(_, _, _, _, _)
MainStayLoop(index, stays, duration, pos, st) ==
    IF pos > Len(stays)
    THEN (IF st.zx_stay # 0 THEN st.zx_stay
          ELSE IF st.last_trauma_stay >= st.score_stay THEN st.trauma_stay
          ELSE st.score_stay)
    ELSE LET scan == ScanMainStayProcedures(index, stays[pos], duration, 1, 0)
         IN IF scan.return_stay THEN pos
            ELSE MainStayLoop(index, stays, duration, pos + 1,
                              MainStayStep(index, st, stays[pos], pos,
                                           scan.proc_priority))

\* FindMainStay with max_duration starting at 0
FindMainStay_MaxDurationFromZero(index, stays, duration) ==
    MainStayLoop(index, stays, duration, 1, [MainStayInit EXCEPT !.max_duration = 0])

\* FindMainStay with the trauma streak never started
FindMainStay_NoTraumaStreak(index, stays, duration) ==
    MainStayLoop(index, stays, duration, 1, [MainStayInit EXCEPT !.ignore_trauma = TRUE])

\* FindMainStay(index, stays, duration): the position of the main stay in
\* the cluster (0: a null pointer)
FindMainStay(index, stays, duration) ==
    MainStayLoop(index, stays, duration, 1, MainStayInit)

\* CheckAggregateErrors(agg, out_errors): the SetError calls it makes
CheckStillborn(agg, stay) ==
    IF ~Matches(stay.main_diagnosis, "P95") THEN <<>>
    ELSE IF stay.exit.mode # "9" THEN Raise(TRUE, 143) \o Note(TRUE, 147, 1)
    ELSE Raise(\/ Len(agg.stays) > 1 \/ stay.entry.mode # "8"
               \/ stay.birthdate # stay.entry.date \/ stay.newborn_weight = 0
               \/ stay.exit.date # stay.entry.date, 147)

CheckAggregateErrors(agg) ==
    \* Sessions
    (IF TestDiagnosisOf(agg.index, agg.stay.sex, agg.stay.main_diagnosis, 8, 2)
     THEN (IF agg.duration = 0 /\ agg.stay.session_count = 0
           THEN Note(~\E k \in 1..Len(agg.procedures) :
                        BitAnd(GetProcedureByte(
                            agg.index.procedures[agg.procedures[k]], 44), 64) # 0,
                     145, 0)
           ELSE Note(agg.stay.session_count > agg.duration + 1, 146, 0))
     ELSE <<>>)
    \* Stillborn
    \o Concat([i \in 1..Len(agg.stays) |-> CheckStillborn(agg, agg.stays[i])])
    \* Newborn
    \o (IF "MalformedNewbornWeight" \in agg.stay.error_mask THEN Raise(TRUE, 82)
        ELSE IF agg.age_days < 29 /\ agg.stay.newborn_weight = 0 THEN Raise(TRUE, 168)
        ELSE Raise(agg.stay.newborn_weight > 0 /\ agg.stay.newborn_weight < 100, 128))

RECURSIVE SumDurations(_)
SumDurations(stays) ==
    IF stays = <<>> THEN 0
    ELSE DateDiff(Head(stays).exit.date, Head(stays).entry.date)
         + SumDurations(Tail(stays))

\* the last gestational age > 0 of the cluster, else the first stay's
RECURSIVE LastGestationalAge(_, _)
LastGestationalAge(stays, current) ==
    IF stays = <<>> THEN current
    ELSE LastGestationalAge(Tail(stays),
            IF Head(stays).gestational_age > 0
            THEN Head(stays).gestational_age ELSE current)

RECURSIVE MaxIgs2(_, _)
MaxIgs2(stays, current) ==
    IF stays = <<>> THEN current
    ELSE MaxIgs2(Tail(stays), Max(current, Head(stays).igs2))

\* the merge step of Aggregate (lines 715-732)
MergeStays(agg, index, stays) ==
    [agg EXCEPT
        !.index = index,
        !.stays = stays,
        !.stay = [stays[1] EXCEPT
                    !.gestational_age = LastGestationalAge(stays, stays[1].gestational_age),
                    !.igs2 = MaxIgs2(stays, stays[1].igs2),
                    !.exit = stays[Len(stays)].exit,
                    !.diagnoses = <<>>,
                    !.procedures = <<>>],
        !.age = ComputeAge(stays[1].entry.date, stays[1].birthdate),
        !.age_days = DateDiff(stays[1].entry.date, stays[1].birthdate),
        !.duration = SumDurations(stays)]

\* the error 502 raised when no table index is valid for the exit date
NoTableError_Advisory == Note(TRUE, 502, 0)
NoTableError == Note(TRUE, 502, 2)

\* Aggregate after its structural checks passed, written as one operator
\* per step, each handing its results to the next. The result holds the
\* GHM, the aggregate, the two reference lists, the error set, the SetError
\* calls made and the steps run.

\* the end of Aggregate (lines 755-758)
AggregateReturn(agg, diagnoses, procedures, errors, raised0, raised, steps) ==
    [ghm |-> IF AllValid(raised) THEN NoGhm ELSE Ghm90Z00Z,
     agg |-> agg, diagnoses |-> diagnoses, procedures |-> procedures,
     errors |-> ApplyErrors(errors, raised),
     raised |-> raised0 \o raised,
     steps |-> steps \o <<"CheckAggregateErrors">>]

\* valid &= CheckAggregateErrors(*out_agg, out_errors)
AggregateCheck(agg, d, p, errors, raised0, steps) ==
    AggregateReturn(agg, d.diagnoses, p.procedures, errors, raised0,
                    d.raised \o p.raised \o CheckAggregateErrors(agg), steps)

\* the diagnoses of the main stay become those of the aggregate
SetMainStay(agg, stays, main_stay) ==
    [agg EXCEPT
        !.stay.main_diagnosis = IF main_stay = 0 THEN Indeterminate
                                ELSE stays[main_stay].main_diagnosis,
        !.stay.linked_diagnosis = IF main_stay = 0 THEN Indeterminate
                                  ELSE stays[main_stay].linked_diagnosis]

\* Pick main stay (lines 746-752)
AggregateMainStay(stays, agg, d, p, errors, raised0, steps) ==
    IF Len(stays) > 1
    THEN AggregateCheck(SetMainStay(agg, stays,
                                    FindMainStay(agg.index, stays, agg.duration)),
                        d, p, errors, raised0, steps \o <<"FindMainStay">>)
    ELSE AggregateCheck(agg, d, p, errors, raised0, steps)

\* out_agg->procedures = *out_procedures
AggregateSetProcedures(stays, agg, d, p, errors, raised0, steps) ==
    AggregateMainStay(stays,
                      [agg EXCEPT !.procedures = p.procedures,
                                  !.proc_activities = p.activities],
                      d, p, errors, raised0, steps)

\* Aggregate procedures (lines 740-744)
AggregateProcedures(stays, agg, d, out_procedures, errors, raised0, steps) ==
    AggregateSetProcedures(stays, agg, d,
                           AppendValidProcedures(agg, out_procedures, 0),
                           errors, raised0,
                           steps \o <<"AppendValidProcedures">>)

\* out_agg->diagnoses = *out_diagnoses; out_agg->proc_activities = 0
AggregateSetDiagnoses(stays, agg, d, out_procedures, errors, raised0, steps) ==
    AggregateProcedures(stays,
                        [agg EXCEPT !.diagnoses = d.diagnoses,
                                    !.proc_activities = 0],
                        d, out_procedures, errors, raised0, steps)

\* Aggregate diagnoses (lines 736-738)
AggregateDiagnoses(stays, agg, out_diagnoses, out_procedures, errors, raised0, steps) ==
    AggregateSetDiagnoses(stays, agg, AppendValidDiagnoses(agg, out_diagnoses),
                          out_procedures, errors, raised0,
                          steps \o <<"AppendValidDiagnoses">>)

\* the table lookup and what follows it (lines 708-732)
AggregateIndexed(index, stays, agg, out_diagnoses, out_procedures, errors, raised0) ==
    IF index = NullIndex
    THEN [ghm |-> Ghm90Z03Z,
          agg |-> [agg EXCEPT !.index = NullIndex],
          diagnoses |-> out_diagnoses, procedures |-> out_procedures,
          errors |-> ApplyErrors(errors, NoTableError),
          raised |-> raised0 \o NoTableError,
          steps |-> <<"CheckMainErrors", "FindIndex">>]
    ELSE AggregateDiagnoses(stays, MergeStays(agg, index, stays),
                            out_diagnoses, out_procedures, errors, raised0,
                            <<"CheckMainErrors", "FindIndex", "Merge">>)

AggregateChecked(table_set, stays, agg, out_diagnoses, out_procedures, errors, raised0) ==
    AggregateIndexed(FindIndex(table_set, stays[Len(stays)].exit.date),
                     stays, agg, out_diagnoses, out_procedures, errors, raised0)

\* the outcome of Aggregate's first line, given CheckMainErrors' calls:
\* an Aggregate that goes on after a blocking error
AggregateAfterMainErrors_NoEarlyReturn(table_set, stays, agg, out_diagnoses, out_procedures, errors, raised0) ==
    AggregateChecked(table_set, stays, agg, out_diagnoses, out_procedures,
                     ApplyErrors(errors, raised0), raised0)

\* if (!CheckMainErrors(stays, out_errors)) return 90Z00Z; and the rest
AggregateAfterMainErrors(table_set, stays, agg, out_diagnoses, out_procedures, errors, raised0) ==
    IF ~AllValid(raised0)
    THEN [ghm |-> Ghm90Z00Z, agg |-> agg,
          diagnoses |-> out_diagnoses, procedures |-> out_procedures,
          errors |-> ApplyErrors(errors, raised0), raised |-> raised0,
          steps |-> <<"CheckMainErrors">>]
    ELSE AggregateChecked(table_set, stays, agg, out_diagnoses, out_procedures,
                          ApplyErrors(errors, raised0), raised0)

\* Aggregate(table_set, stays, out_agg, out_diagnoses, out_procedures, out_errors)
Aggregate(table_set, stays, agg, out_diagnoses, out_procedures, errors) ==
    AggregateAfterMainErrors(table_set, stays, agg, out_diagnoses, out_procedures,
                             errors, CheckMainErrors(stays))

(***************************************************************************)
(* GHM decision tree                                                       *)
(***************************************************************************)
\* MakeUInt16(high, low)
MakeUInt16(high, low) == high * 256 + low

\* (char)('0' + n), for the characters the stay fields can hold
CharFromZero(n) ==
    IF n \in 0..9 THEN SubSeq("0123456789", n + 1, n + 1)
    ELSE IF n = 34 THEN "R" ELSE "?"

BoolInt(b) == IF b THEN 1 ELSE 0

\* the dictionary entries of the aggregate's diagnoses and procedures
AggDiagnoses(agg) == [i \in 1..Len(agg.diagnoses) |-> agg.index.diagnoses[agg.diagnoses[i]]]
AggProcedures(agg) == [i \in 1..Len(agg.procedures) |-> agg.index.procedures[agg.procedures[i]]]

\* the number of procedures of the aggregate with the byte mask set
CountProcedures(agg, offset, value) ==
    Cardinality({i \in 1..Len(agg.procedures) :
                    TestProcedure(AggProcedures(agg)[i], offset, value)})

\* function 18: at least two diagnoses with the mask, one of them neither
\* the main nor the linked diagnosis
RECURSIVE TestTwoDiagnoses(_, _, _, _, _, _, _)
TestTwoDiagnoses(ctx, agg, offset, value, k, matches, special_matches) ==
    IF k > Len(agg.diagnoses) THEN 0
    ELSE LET diag_info == AggDiagnoses(agg)[k]
             hit == TestDiagnosis(agg.stay.sex, diag_info, offset, value)
             special == \/ diag_info.diag = ctx.main_diagnosis
                        \/ diag_info.diag = ctx.linked_diagnosis
         IN IF ~hit
            THEN TestTwoDiagnoses(ctx, agg, offset, value, k + 1, matches, special_matches)
            ELSE IF matches + 1 >= 2
                    /\ matches + 1 > special_matches + BoolInt(special)
            THEN 1
            ELSE TestTwoDiagnoses(ctx, agg, offset, value, k + 1, matches + 1,
                                  special_matches + BoolInt(special))

\* function 9: every procedure with bytes[0] & 0x80 has the mask, and there
\* is one
RECURSIVE TestMajorProcedures(_, _, _, _, _)
TestMajorProcedures(agg, offset, value, k, result) ==
    IF k > Len(agg.procedures) THEN result
    ELSE IF TestProcedure(AggProcedures(agg)[k], 0, 128)
    THEN (IF TestProcedure(AggProcedures(agg)[k], offset, value)
          THEN TestMajorProcedures(agg, offset, value, k + 1, 1)
          ELSE 0)
    ELSE TestMajorProcedures(agg, offset, value, k + 1, result)

\* function 39: the first cell of gnn_cells that holds the weight and the
\* gestational age
FindGnn(agg) ==
    LET gestational_age == IF agg.stay.gestational_age = 0 THEN 99
                           ELSE agg.stay.gestational_age
        cells == agg.index.gnn_cells
        hits == {i \in 1..Len(cells) :
                    /\ agg.stay.newborn_weight >= cells[i].limits[1].min
                    /\ agg.stay.newborn_weight < cells[i].limits[1].max
                    /\ gestational_age >= cells[i].limits[2].min
                    /\ gestational_age < cells[i].limits[2].max}
    IN IF hits = {} THEN 0
       ELSE cells[CHOOSE i \in hits : \A j \in hits : i <= j].value

\* function 34 without the test that the linked diagnosis of the context
\* is still the one of the aggregate
SwapDiagnoses_Again(ctx, agg) ==
    LET p == FindDiagnosis(agg.index, ctx.linked_diagnosis)
        attr == Attributes(agg.index.diagnoses[p], agg.stay.sex)
    IN IF /\ ctx.linked_diagnosis # ""
          /\ p # 0
          /\ (attr.cmd # 0 \/ attr.jump # 3)
       THEN [ctx EXCEPT !.main_diagnosis = ctx.linked_diagnosis,
                        !.linked_diagnosis = ctx.main_diagnosis]
       ELSE ctx

\* function 34: the main and linked diagnoses of the context are swapped
SwapDiagnoses(ctx, agg) ==
    LET p == FindDiagnosis(agg.index, ctx.linked_diagnosis)
        attr == Attributes(agg.index.diagnoses[p], agg.stay.sex)
    IN IF /\ ctx.linked_diagnosis # ""
          /\ ctx.linked_diagnosis = agg.stay.linked_diagnosis
          /\ p # 0
          /\ (attr.cmd # 0 \/ attr.jump # 3)
       THEN [ctx EXCEPT !.main_diagnosis = ctx.linked_diagnosis,
                        !.linked_diagnosis = ctx.main_diagnosis]
       ELSE ctx

\* the value returned by ExecuteGhmTest (-1: unknown test or arguments)
GhmTestValue(ctx, agg, f, p0, p1) ==
    CASE f \in {0, 1} ->
            GetDiagnosisByteOf(agg.index, agg.stay.sex, ctx.main_diagnosis, p0)
      [] f = 2 -> BoolInt(CountProcedures(agg, p0, p1) >= 1)
      [] f = 3 -> IF p1 = 1 THEN BoolInt(agg.age_days > p0) ELSE BoolInt(agg.age > p0)
      [] f = 5 -> BoolInt(TestDiagnosisOf(agg.index, agg.stay.sex, ctx.main_diagnosis, p0, p1))
      [] f = 6 -> BoolInt(\E k \in 1..Len(agg.diagnoses) :
                            /\ AggDiagnoses(agg)[k].diag # ctx.main_diagnosis
                            /\ AggDiagnoses(agg)[k].diag # ctx.linked_diagnosis
                            /\ TestDiagnosis(agg.stay.sex, AggDiagnoses(agg)[k], p0, p1))
      [] f = 7 -> BoolInt(\E k \in 1..Len(agg.diagnoses) :
                            TestDiagnosis(agg.stay.sex, AggDiagnoses(agg)[k], p0, p1))
      [] f = 9 -> TestMajorProcedures(agg, p0, p1, 1, 0)
      [] f = 10 -> BoolInt(CountProcedures(agg, p0, p1) >= 2)
      [] f = 13 -> BoolInt(GetDiagnosisByteOf(agg.index, agg.stay.sex,
                                              ctx.main_diagnosis, p0) = p1)
      [] f = 14 -> BoolInt(agg.stay.sex = p0 - 49)
      [] f = 18 -> TestTwoDiagnoses(ctx, agg, p0, p1, 1, 0, 0)
      [] f = 19 /\ p1 = 0 -> BoolInt(agg.stay.exit.mode = CharFromZero(p0))
      [] f = 19 /\ p1 = 1 -> BoolInt(agg.stay.exit.destination = CharFromZero(p0))
      [] f = 19 /\ p1 = 2 -> BoolInt(agg.stay.entry.mode = CharFromZero(p0))
      [] f = 19 /\ p1 = 3 -> BoolInt(agg.stay.entry.origin = CharFromZero(p0))
      [] f \in {20, 28, 34, 39} -> 0
      [] f = 22 -> BoolInt(agg.duration < MakeUInt16(p0, p1))
      [] f = 26 -> BoolInt(TestDiagnosisOf(agg.index, agg.stay.sex,
                                           agg.stay.linked_diagnosis, p0, p1))
      [] f = 29 -> BoolInt(agg.duration = MakeUInt16(p0, p1))
      [] f = 30 -> BoolInt(agg.stay.session_count = MakeUInt16(p0, p1))
      [] f = 33 -> BoolInt(p0 < 8 /\ BitAnd(agg.proc_activities, 2 ^ p0) # 0)
      [] f = 35 -> BoolInt(ctx.main_diagnosis # agg.stay.main_diagnosis)
      [] f = 36 -> BoolInt(\E k \in 1..Len(agg.diagnoses) :
                            /\ AggDiagnoses(agg)[k].diag # ctx.linked_diagnosis
                            /\ TestDiagnosis(agg.stay.sex, AggDiagnoses(agg)[k], p0, p1))
      [] f = 38 -> BoolInt(ctx.gnn >= p0 /\ ctx.gnn <= p1)
      [] f = 41 -> BoolInt(\E k \in 1..Len(agg.diagnoses) :
                            LET attr == Attributes(AggDiagnoses(agg)[k], agg.stay.sex)
                            IN attr.cmd = p0 /\ attr.jump = p1)
      [] f = 42 -> BoolInt(/\ agg.stay.newborn_weight # 0
                           /\ agg.stay.newborn_weight < MakeUInt16(p0, p1))
      [] f = 43 -> BoolInt(\E k \in 1..Len(agg.diagnoses) :
                            LET attr == Attributes(AggDiagnoses(agg)[k], agg.stay.sex)
                            IN /\ AggDiagnoses(agg)[k].diag # ctx.linked_diagnosis
                               /\ attr.cmd = p0 /\ attr.jump = p1)
      [] OTHER -> -1

\* the context after ExecuteGhmTest (functions 34 and 39 change it)
GhmTestContext(ctx, agg, f) ==
    IF f = 34 THEN SwapDiagnoses(ctx, agg)
    ELSE IF f = 39 /\ ctx.gnn = 0 THEN [ctx EXCEPT !.gnn = FindGnn(agg)]
    ELSE ctx

\* ExecuteGhmTest(ctx, ghm_node, out_errors): the value returned, the
\* context left and the SetError call of function 28
ExecuteGhmTest(ctx, agg, ghm_node) ==
    [ret |-> GhmTestValue(ctx, agg, ghm_node.function,
                          ghm_node.params[1], ghm_node.params[2]),
     ctx |-> GhmTestContext(ctx, agg, ghm_node.function),
     raised |-> IF ghm_node.function = 28 THEN Note(TRUE, ghm_node.params[1], 1)
                ELSE <<>>]

\* CheckGhmErrors(agg, ghm, out_errors): the SetError calls it makes
CheckGhmErrors(agg, ghm) ==
    (IF ghm.cmd = 28
     THEN Raise(Len(agg.stays) > 1, 150)
          \o Raise(/\ DateValue(agg.stay.exit.date) >= DateValue(MkDate(2016, 3, 1))
                   /\ Matches(agg.stay.main_diagnosis, "Z511")
                   /\ agg.stay.linked_diagnosis = "", 187)
     ELSE <<>>)
    \o Note(/\ DateValue(agg.stay.exit.date) >= DateValue(MkDate(2016, 3, 1))
            /\ GhmRoot(ghm) = [cmd |-> 14, type |-> "Z", seq |-> 8]
            /\ ~\E k \in 1..Len(agg.procedures) :
                    AggProcedures(agg)[k].proc \in {"JNJD002", "JNJP001"},
            179, 0)

\* the outcome of RunGhmTree: a GHM and the SetError calls made; aborted
\* when the Assert on the node index fails
TreeResult(ghm, raised, aborted) == [ghm |-> ghm, raised |-> raised, aborted |-> aborted]

\* the end of RunGhmTree (lines 1103-1106)
RunGhmTreeEnd(agg, ghm, raised, checks) ==
    TreeResult(IF AllValid(checks) THEN ghm ELSE Ghm90Z00Z, raised \o checks, FALSE)

\* one Test node: the step taken with the outcome of ExecuteGhmTest
RECURSIVE RunGhmTreeLoop(_, _, _, _, _)
RunGhmTreeTest(agg, i, ghm_node, test, raised) ==
    IF test.ret < 0 \/ test.ret >= ghm_node.children_count
    THEN TreeResult(Ghm90Z03Z, raised \o test.raised \o Note(TRUE, 4, 2), FALSE)
    ELSE RunGhmTreeLoop(agg, i + 1, ghm_node.children_idx + test.ret, test.ctx,
                        raised \o test.raised)

\* the loop of RunGhmTree, at iteration i (from 0) and node ghm_node_idx
RunGhmTreeLoop(agg, i, ghm_node_idx, ctx, raised) ==
    IF i >= Len(agg.index.ghm_nodes)
    THEN TreeResult(Ghm90Z03Z, raised \o Note(TRUE, 4, 2), FALSE)
    ELSE IF ghm_node_idx < 0 \/ ghm_node_idx >= Len(agg.index.ghm_nodes)
    THEN TreeResult(NoGhm, raised, TRUE)
    ELSE IF agg.index.ghm_nodes[ghm_node_idx + 1].type = "Test"
    THEN RunGhmTreeTest(agg, i, agg.index.ghm_nodes[ghm_node_idx + 1],
                        ExecuteGhmTest(ctx, agg, agg.index.ghm_nodes[ghm_node_idx + 1]),
                        raised)
    ELSE IF GhmIsValid(agg.index.ghm_nodes[ghm_node_idx + 1].ghm)
    THEN RunGhmTreeEnd(agg, agg.index.ghm_nodes[ghm_node_idx + 1].ghm,
                       raised \o Note(TRUE, agg.index.ghm_nodes[ghm_node_idx + 1].error, 1),
                       CheckGhmErrors(agg, agg.index.ghm_nodes[ghm_node_idx + 1].ghm))
    ELSE RunGhmTreeLoop(agg, i + 1, ghm_node_idx, ctx,
                        raised \o Note(TRUE, agg.index.ghm_nodes[ghm_node_idx + 1].error, 1))

\* RunGhmTree(agg, out_errors)
RunGhmTree(agg) ==
    RunGhmTreeLoop(agg, 0, 0,
                   [main_diagnosis |-> agg.stay.main_diagnosis,
                    linked_diagnosis |-> agg.stay.linked_diagnosis, gnn |-> 0],
                   <<>>)

\* the bound of the loop on its count of iterations (line 1072)
TreeExhausted_OffByOne(i, len) == i > len
TreeExhausted(i, len) == i >= len

\* the range test on the value ExecuteGhmTest returned (line 1084)
TestOutOfRange_NegativePasses(function_ret, children_count) ==
    function_ret >= children_count
TestOutOfRange(function_ret, children_count) ==
    function_ret < 0 \/ function_ret >= children_count

\* a RunGhmTree call: pc is "loop" in the for loop, "check" after it, "done"
\* once it returned and "aborted" when the Assert of line 1078 failed;
\* visited lists the nodes read from the array, in order
TreeCall(pc, i, ghm_node_idx, ctx, ghm, raised, visited) ==
    [pc |-> pc, i |-> i, ghm_node_idx |-> ghm_node_idx, ctx |-> ctx, ghm |-> ghm,
     raised |-> raised, visited |-> visited]

\* the locals of RunGhmTree before the loop (lines 1063-1070)
TreeStart(agg) ==
    TreeCall("loop", 0, 0,
             [main_diagnosis |-> agg.stay.main_diagnosis,
              linked_diagnosis |-> agg.stay.linked_diagnosis, gnn |-> 0],
             NoGhm, <<>>, <<>>)

\* a Test node of the loop (lines 1082-1092)
RunGhmTreeTestNode(t, ghm_node, test) ==
    IF TestOutOfRange(test.ret, ghm_node.children_count)
    THEN [t EXCEPT !.pc = "done", !.ghm = Ghm90Z03Z, !.ctx = test.ctx,
                   !.raised = @ \o test.raised \o Note(TRUE, 4, 2),
                   !.visited = Append(@, t.ghm_node_idx)]
    ELSE [t EXCEPT !.i = @ + 1, !.ctx = test.ctx,
                   !.ghm_node_idx = ghm_node.children_idx + test.ret,
                   !.raised = @ \o test.raised,
                   !.visited = Append(@, t.ghm_node_idx)]

\* a Ghm node of the loop (lines 1094-1099) and the loop's test on ghm
RunGhmTreeGhmNode(t, ghm_node) ==
    [t EXCEPT !.pc = IF GhmIsValid(ghm_node.ghm) THEN "check" ELSE "loop",
              !.i = @ + 1, !.ghm = ghm_node.ghm,
              !.raised = @ \o Note(TRUE, ghm_node.error, 1),
              !.visited = Append(@, t.ghm_node_idx)]

\* one iteration of the loop of RunGhmTree (lines 1071-1101)
RunGhmTreeIteration(agg, t) ==
    IF TreeExhausted(t.i, Len(agg.index.ghm_nodes))
    THEN [t EXCEPT !.pc = "done", !.ghm = Ghm90Z03Z,
                   !.raised = @ \o Note(TRUE, 4, 2)]
    ELSE IF t.ghm_node_idx < 0 \/ t.ghm_node_idx >= Len(agg.index.ghm_nodes)
    THEN [t EXCEPT !.pc = "aborted"]
    ELSE IF agg.index.ghm_nodes[t.ghm_node_idx + 1].type = "Test"
    THEN RunGhmTreeTestNode(t, agg.index.ghm_nodes[t.ghm_node_idx + 1],
                            ExecuteGhmTest(t.ctx, agg,
                                           agg.index.ghm_nodes[t.ghm_node_idx + 1]))
    ELSE RunGhmTreeGhmNode(t, agg.index.ghm_nodes[t.ghm_node_idx + 1])

\* the checks after the loop and the return (lines 1103-1106)
RunGhmTreeChecked(t, checks) ==
    [t EXCEPT !.pc = "done", !.ghm = IF AllValid(checks) THEN @ ELSE Ghm90Z00Z,
              !.raised = @ \o checks]


(***************************************************************************)
(* GHM severity                                                            *)
(***************************************************************************)
\* GetMinimalDurationForSeverity(severity)
GetMinimalDurationForSeverity(severity) == IF severity # 0 THEN severity + 2 ELSE 0

\* LimitSeverityWithDuration(severity, duration)
LimitSeverityWithDuration_OneDayEarly(severity, duration) ==
    IF duration >= 2 THEN Min(duration - 1, severity) ELSE 0
LimitSeverityWithDuration(severity, duration) ==
    IF duration >= 3 THEN Min(duration - 2, severity) ELSE 0

\* TableIndex::FindGhmRoot(ghm_root): the address of the entry, or 0 (null)
FindGhmRoot(index, ghm_root) ==
    LET hits == {i \in 1..Len(index.ghm_roots) : index.ghm_roots[i].ghm_root = ghm_root}
    IN IF hits = {} THEN 0 ELSE CHOOSE i \in hits : \A j \in hits : i <= j

\* ValueRangeCell::Test(idx, value), idx from 0
CellTest(cell, idx, value) ==
    value >= cell.limits[idx + 1].min /\ value < cell.limits[idx + 1].max

\* TestDiagnosisExclusion(index, cma_diag_info, main_diag_info)
TestDiagnosisExclusion(index, cma_diag_info, main_diag_info) ==
    BitAnd(ByteAt(index.exclusions[cma_diag_info.exclusion_set_idx + 1].raw,
                  main_diag_info.cma_exclusion_mask.offset),
           main_diag_info.cma_exclusion_mask.value) # 0

\* TestExclusion(agg, ghm_root_info, diag_info, main_diag_info, linked_diag_info);
\* linked is the address of the linked diagnosis entry (0: null)
TestExclusion(agg, ghm_root_info, diag_info, main_diag_info, linked) ==
    \/ /\ agg.age < 14
       /\ BitAnd(GetDiagnosisByte(agg.stay.sex, diag_info, 19), 16) # 0
    \/ /\ agg.age >= 2
       /\ \/ BitAnd(GetDiagnosisByte(agg.stay.sex, diag_info, 19), 8) # 0
          \/ SubSeq(diag_info.diag, 1, 1) = "P"
    \/ BitAnd(GetDiagnosisByte(agg.stay.sex, diag_info,
                               ghm_root_info.cma_exclusion_mask.offset),
              ghm_root_info.cma_exclusion_mask.value) # 0
    \/ TestDiagnosisExclusion(agg.index, diag_info, main_diag_info)
    \/ /\ linked # 0
       /\ TestDiagnosisExclusion(agg.index, diag_info, agg.index.diagnoses[linked])

\* the severity loop over the aggregate's diagnoses (lines 1186-1196)
RECURSIVE MaxDiagnosisSeverity(_, _, _, _)
MaxDiagnosisSeverity(agg, ghm_root_info, k, severity) ==
    IF k > Len(agg.diagnoses) THEN severity
    ELSE LET diag_info == AggDiagnoses(agg)[k]
             new_severity == Attributes(diag_info, agg.stay.sex).severity
         IN IF \/ diag_info.diag = agg.stay.main_diagnosis
               \/ diag_info.diag = agg.stay.linked_diagnosis
            THEN MaxDiagnosisSeverity(agg, ghm_root_info, k + 1, severity)
            ELSE IF /\ new_severity > severity
                    /\ ~TestExclusion(agg, ghm_root_info, diag_info,
                            agg.index.diagnoses[FindDiagnosis(agg.index,
                                                              agg.stay.main_diagnosis)],
                            FindDiagnosis(agg.index, agg.stay.linked_diagnosis))
            THEN MaxDiagnosisSeverity(agg, ghm_root_info, k + 1, new_severity)
            ELSE MaxDiagnosisSeverity(agg, ghm_root_info, k + 1, severity)

\* the adjustment with a death rule that adds a level to any severity
AdjustSeverity_DeathAlwaysBumps(agg, ghm_root_info, severity) ==
    IF /\ agg.age >= ghm_root_info.old_age_treshold
       /\ severity < ghm_root_info.old_severity_limit
    THEN severity + 1
    ELSE IF /\ agg.age < ghm_root_info.young_age_treshold
            /\ severity < ghm_root_info.young_severity_limit
    THEN severity + 1
    ELSE IF agg.stay.exit.mode = "9" THEN severity + 1
    ELSE severity

\* the age and death adjustment of the severity (lines 1198-1206)
AdjustSeverity(agg, ghm_root_info, severity) ==
    IF /\ agg.age >= ghm_root_info.old_age_treshold
       /\ severity < ghm_root_info.old_severity_limit
    THEN severity + 1
    ELSE IF /\ agg.age < ghm_root_info.young_age_treshold
            /\ severity < ghm_root_info.young_severity_limit
    THEN severity + 1
    ELSE IF agg.stay.exit.mode = "9" /\ severity = 0 THEN 1
    ELSE severity

\* the severity of a childbirth list (lines 1167-1176)
ChildbirthSeverity(agg, ghm_root_info, severity) ==
    IF ghm_root_info.childbirth_severity_list = 0 THEN severity
    ELSE LET cells == agg.index.cma_cells[ghm_root_info.childbirth_severity_list]
             hits == {i \in 1..Len(cells) :
                        /\ CellTest(cells[i], 0, agg.stay.gestational_age)
                        /\ CellTest(cells[i], 1, severity)}
         IN IF hits = {} THEN severity
            ELSE cells[CHOOSE i \in hits : \A j \in hits : i <= j].value

LetterIndex(mode) == CASE mode = "A" -> 0 [] mode = "B" -> 1 [] mode = "C" -> 2 [] OTHER -> 3

\* the test of the ambulatory branch (line 1158)
AmbulatoryRule_AfterOneDay(ghm_root_info, duration) ==
    ghm_root_info.allow_ambulatory /\ duration = 1
AmbulatoryRule(ghm_root_info, duration) ==
    ghm_root_info.allow_ambulatory /\ duration = 0

\* the test of the short duration branch (lines 1160-1161)
ShortDurationRule_BelowTwoDays(ghm_root_info, duration) == duration < 2
ShortDurationRule(ghm_root_info, duration) ==
    /\ ghm_root_info.short_duration_treshold # 0
    /\ duration < ghm_root_info.short_duration_treshold

\* the mode RunGhmSeverity gives a GHM whose root is known
SeverityMode(agg, ghm, ghm_root_info) ==
    IF AmbulatoryRule(ghm_root_info, agg.duration) THEN "J"
    ELSE IF ShortDurationRule(ghm_root_info, agg.duration) THEN "T"
    ELSE IF ghm.mode \in {"A", "B", "C", "D"}
    THEN SubSeq("ABCD",
                1 + LimitSeverityWithDuration(
                        ChildbirthSeverity(agg, ghm_root_info, LetterIndex(ghm.mode)),
                        agg.duration),
                1 + LimitSeverityWithDuration(
                        ChildbirthSeverity(agg, ghm_root_info, LetterIndex(ghm.mode)),
                        agg.duration))
    ELSE IF ghm.mode = ""
    THEN SubSeq("1234",
                1 + LimitSeverityWithDuration(
                        AdjustSeverity(agg, ghm_root_info,
                            MaxDiagnosisSeverity(agg, ghm_root_info, 1, 0)),
                        agg.duration),
                1 + LimitSeverityWithDuration(
                        AdjustSeverity(agg, ghm_root_info,
                            MaxDiagnosisSeverity(agg, ghm_root_info, 1, 0)),
                        agg.duration))
    ELSE ghm.mode

\* RunGhmSeverity(agg, ghm, out_errors)
RunGhmSeverity(agg, ghm) ==
    IF FindGhmRoot(agg.index, GhmRoot(ghm)) = 0
    THEN [ghm |-> Ghm90Z03Z, raised |-> Note(TRUE, 4, 2)]
    ELSE [ghm |-> [ghm EXCEPT !.mode =
                     SeverityMode(agg, ghm,
                         agg.index.ghm_roots[FindGhmRoot(agg.index, GhmRoot(ghm))])],
          raised |-> <<>>]

\* ghm = RunGhmSeverity(agg, ghm, out_errors) on the tree's outcome
ClassifyGhmSeverity(tree, severity) ==
    TreeResult(severity.ghm, tree.raised \o severity.raised, tree.aborted)

ClassifyGhmTree(agg, tree) ==
    IF tree.aborted THEN tree
    ELSE ClassifyGhmSeverity(tree, RunGhmSeverity(agg, tree.ghm))

\* ClassifyGhm(agg, out_errors)
ClassifyGhm(agg) == ClassifyGhmTree(agg, RunGhmTree(agg))

(***************************************************************************)
(* GHS, supplements and prices                                             *)
(***************************************************************************)
INT16_MAX == 32767

\* The authorization set: the units of the facility and, under the unit
\* INT16_MAX, the authorizations of the facility itself
TheAuthorizationSet ==
    <<[unit |-> 501, type |-> 1, dates |-> <<MkDate(2015, 1, 1), MkDate(2017, 1, 1)>>],
      [unit |-> 502, type |-> 7, dates |-> <<MkDate(2015, 1, 1), MkDate(2017, 1, 1)>>],
      [unit |-> INT16_MAX, type |-> 4,
       dates |-> <<MkDate(2016, 1, 14), MkDate(2017, 1, 1)>>]>>

\* AuthorizationSet::FindUnit(unit): the authorizations of a unit
FindUnits(authorization_set, unit) ==
    SelectSeq(authorization_set, LAMBDA auth : auth.unit = unit)

\* AuthorizationSet::FindUnit(unit, date): the first one valid at the date,
\* as a sequence of at most one authorization
FindUnit(authorization_set, unit, date) ==
    SelectSeq(FindUnits(authorization_set, unit),
              LAMBDA auth : /\ DateValue(date) >= DateValue(auth.dates[1])
                            /\ DateValue(date) < DateValue(auth.dates[2]))

\* GetAuthorizationType(authorization_set, unit, date)
GetAuthorizationType(authorization_set, unit, date) ==
    IF unit >= 10000 THEN unit % 100
    ELSE IF unit # 0
    THEN (IF FindUnit(authorization_set, unit, date) = <<>> THEN 0
          ELSE FindUnit(authorization_set, unit, date)[1].type)
    ELSE 0

\* TestAuthorization(authorization_set, unit, date, authorization)
TestAuthorization(authorization_set, unit, date, authorization) ==
    \/ GetAuthorizationType(authorization_set, unit, date) = authorization
    \/ \E k \in 1..Len(FindUnits(authorization_set, INT16_MAX)) :
          LET auth == FindUnits(authorization_set, INT16_MAX)[k]
          IN /\ auth.type = authorization
             /\ DateValue(date) >= DateValue(auth.dates[1])
             /\ DateValue(date) < DateValue(auth.dates[2])

\* the duration in the authorized units, a stay without a night counting
\* for nothing
RECURSIVE AuthorizedDuration_NightsOnly(_, _, _)
AuthorizedDuration_NightsOnly(authorization_set, stays, authorization) ==
    IF stays = <<>> THEN 0
    ELSE (IF TestAuthorization(authorization_set, Head(stays).unit,
                               Head(stays).exit.date, authorization)
          THEN DateDiff(Head(stays).exit.date, Head(stays).entry.date)
          ELSE 0)
         + AuthorizedDuration_NightsOnly(authorization_set, Tail(stays), authorization)

\* the duration TestGhs counts in the units holding the authorization
RECURSIVE AuthorizedDuration(_, _, _)
AuthorizedDuration(authorization_set, stays, authorization) ==
    IF stays = <<>> THEN 0
    ELSE (IF TestAuthorization(authorization_set, Head(stays).unit,
                               Head(stays).exit.date, authorization)
          THEN (IF Head(stays).exit.date # Head(stays).entry.date
                THEN DateDiff(Head(stays).exit.date, Head(stays).entry.date)
                ELSE 1)
          ELSE 0)
         + AuthorizedDuration(authorization_set, Tail(stays), authorization)

\* the duration TestGhs compares with the minimal duration
GhsDuration(agg, authorization_set, ghs_access_info) ==
    IF ghs_access_info.unit_authorization # 0
    THEN AuthorizedDuration(authorization_set, agg.stays,
                            ghs_access_info.unit_authorization)
    ELSE agg.duration

\* TestGhs(agg, authorization_set, ghs_access_info)
TestGhs(agg, authorization_set, ghs_access_info) ==
    /\ ~(ghs_access_info.minimal_age # 0 /\ agg.age < ghs_access_info.minimal_age)
    /\ ghs_access_info.unit_authorization # 0 =>
          \E i \in 1..Len(agg.stays) :
              TestAuthorization(authorization_set, agg.stays[i].unit,
                                agg.stays[i].exit.date,
                                ghs_access_info.unit_authorization)
    /\ ghs_access_info.bed_authorization # 0 =>
          \E i \in 1..Len(agg.stays) :
              agg.stays[i].bed_authorization = ghs_access_info.bed_authorization
    /\ ~(/\ ghs_access_info.minimal_duration # 0
         /\ GhsDuration(agg, authorization_set, ghs_access_info)
                < ghs_access_info.minimal_duration)
    /\ ghs_access_info.main_diagnosis_mask.value # 0 =>
          TestDiagnosisOf(agg.index, agg.stay.sex, agg.stay.main_diagnosis,
                          ghs_access_info.main_diagnosis_mask.offset,
                          ghs_access_info.main_diagnosis_mask.value)
    /\ ghs_access_info.diagnosis_mask.value # 0 =>
          \E k \in 1..Len(agg.diagnoses) :
              TestDiagnosis(agg.stay.sex, AggDiagnoses(agg)[k],
                            ghs_access_info.diagnosis_mask.offset,
                            ghs_access_info.diagnosis_mask.value)
    /\ \A m \in 1..Len(ghs_access_info.procedure_masks) :
          \E k \in 1..Len(agg.procedures) :
              TestProcedure(AggProcedures(agg)[k],
                            ghs_access_info.procedure_masks[m].offset,
                            ghs_access_info.procedure_masks[m].value)

\* TableIndex::FindCompatibleGhs(ghm): the access rules of the GHM, in
\* table order
FindCompatibleGhs(index, ghm) == SelectSeq(index.ghs, LAMBDA info : info.ghm = ghm)

\* the test for UHCD-only stays without the tests on the duration and on
\* the entry and exit modes
IsUhcdOnly_AnyMode(agg, authorization_set) ==
    \A i \in 1..Len(agg.stays) :
        GetAuthorizationType(authorization_set, agg.stays[i].unit,
                             agg.stays[i].exit.date) = 7

\* Deal with UHCD-only stays (lines 1325-1331)
IsUhcdOnly(agg, authorization_set) ==
    /\ agg.duration > 0
    /\ agg.stays[1].entry.mode = "8"
    /\ agg.stays[Len(agg.stays)].exit.mode = "8"
    /\ \A i \in 1..Len(agg.stays) :
          GetAuthorizationType(authorization_set, agg.stays[i].unit,
                               agg.stays[i].exit.date) = 7

\* the GHM the access rules are looked up with: ClassifyGhm(agg0, nullptr)
\* for UHCD-only stays
GhsLookupGhm(agg, authorization_set, ghm) ==
    IF IsUhcdOnly(agg, authorization_set)
    THEN ClassifyGhm([agg EXCEPT !.duration = 0])
    ELSE TreeResult(ghm, <<>>, FALSE)

\* the first access rule that TestGhs accepts gives the GHS
FirstGhs_LastWins(agg, authorization_set, compatible_ghs) ==
    LET hits == {k \in 1..Len(compatible_ghs) :
                    TestGhs(agg, authorization_set, compatible_ghs[k])}
    IN IF hits = {} THEN 9999
       ELSE compatible_ghs[CHOOSE k \in hits : \A j \in hits : k >= j].ghs
FirstGhs(agg, authorization_set, compatible_ghs) ==
    LET hits == {k \in 1..Len(compatible_ghs) :
                    TestGhs(agg, authorization_set, compatible_ghs[k])}
    IN IF hits = {} THEN 9999
       ELSE compatible_ghs[CHOOSE k \in hits : \A j \in hits : k <= j].ghs

\* ClassifyGhs(agg, authorization_set, ghm)
ClassifyGhs(agg, authorization_set, ghm) ==
    IF ~GhmIsValid(ghm) \/ GhmIsError(ghm) THEN 9999
    ELSE FirstGhs(agg, authorization_set,
                  FindCompatibleGhs(agg.index,
                                    GhsLookupGhm(agg, authorization_set, ghm).ghm))

\* the GHM the access rules are looked up with at line 1338; none when
\* ClassifyGhs has returned before
ClassifyGhsLookup(agg, authorization_set, ghm) ==
    IF ~GhmIsValid(ghm) \/ GhmIsError(ghm) THEN NoGhm
    ELSE GhsLookupGhm(agg, authorization_set, ghm).ghm

\* the error set after the SetError calls of raised made through a pointer:
\* SetError records nothing through a null pointer (line 235)
SetErrorsThrough(is_null, error_set, raised) ==
    IF is_null THEN error_set ELSE ApplyErrors(error_set, raised)

\* the error set of the caller after ClassifyGhs: the only SetError calls
\* are those of ClassifyGhm(agg0, nullptr)
ClassifyGhsErrors(agg, authorization_set, ghm, errors) ==
    IF ~GhmIsValid(ghm) \/ GhmIsError(ghm) THEN errors
    ELSE IF IsUhcdOnly(agg, authorization_set)
    THEN SetErrorsThrough(TRUE, errors,
                          ClassifyGhm([agg EXCEPT !.duration = 0]).raised)
    ELSE errors

\* whether ClassifyGhs stops on the failed Assert of RunGhmTree
ClassifyGhsAborts(agg, authorization_set, ghm) ==
    /\ GhmIsValid(ghm) /\ ~GhmIsError(ghm)
    /\ GhsLookupGhm(agg, authorization_set, ghm).aborted

\* TestProcedure(index, exit_date, proc, offset, value) on a realisation
TestProcedureOf(index, exit_date, proc, offset, value) ==
    LET p == FindProcedure(index, proc.proc, proc.phase, exit_date)
    IN p # 0 /\ BitAnd(GetProcedureByte(index.procedures[p], offset), value) # 0

\* TestSupplementRea(agg, stay, list2_treshold)
RECURSIVE ReaProcedures(_, _, _, _, _)
ReaProcedures(agg, stay, list2_treshold, k, list2_matches) ==
    IF k > Len(stay.procedures) THEN FALSE
    ELSE IF TestProcedureOf(agg.index, stay.exit.date, stay.procedures[k], 27, 16)
    THEN TRUE
    ELSE IF TestProcedureOf(agg.index, stay.exit.date, stay.procedures[k], 27, 8)
    THEN (IF list2_matches + 1 >= list2_treshold THEN TRUE
          ELSE ReaProcedures(agg, stay, list2_treshold, k + 1, list2_matches + 1))
    ELSE ReaProcedures(agg, stay, list2_treshold, k + 1, list2_matches)

TestSupplementRea(agg, stay, list2_treshold) ==
    /\ (stay.igs2 >= 15 \/ agg.age < 18)
    /\ ReaProcedures(agg, stay, list2_treshold, 1, 0)

\* the procedures paired with the diagnoses of the stay that have the mask
SrcProcedures(agg, stay, list, offset, value) ==
    {agg.index.src_pairs[list][k].proc :
        k \in {j \in 1..Len(agg.index.src_pairs[list]) :
                  \E d \in 1..Len(stay.diagnoses) :
                      /\ agg.index.src_pairs[list][j].diag = stay.diagnoses[d]
                      /\ TestDiagnosisOf(agg.index, agg.stay.sex, stay.diagnoses[d],
                                         offset, value)}}

\* TestSupplementSrc(agg, stay, igs2_src_adjust, prev_reanimation); pos is
\* the position of the stay in the cluster
TestSupplementSrc(agg, pos, igs2_src_adjust, prev_reanimation) ==
    LET stay == agg.stays[pos]
        adult_list == stay.igs2 - igs2_src_adjust >= 7 \/ agg.age < 18
        src_procedures ==
            (IF adult_list THEN SrcProcedures(agg, stay, 1, 21, 8) ELSE {})
            \cup (IF agg.age < 18 THEN SrcProcedures(agg, stay, 2, 22, 64) ELSE {})
    IN \/ prev_reanimation
       \/ agg.age >= 18 /\ stay.igs2 - igs2_src_adjust >= 15
       \/ /\ adult_list
          /\ \E d \in 1..Len(stay.diagnoses) :
                TestDiagnosisOf(agg.index, agg.stay.sex, stay.diagnoses[d], 21, 16)
       \/ /\ agg.age < 18
          /\ \E d \in 1..Len(stay.diagnoses) :
                TestDiagnosisOf(agg.index, agg.stay.sex, stay.diagnoses[d], 22, 128)
       \/ \E k \in 1..Len(stay.procedures) : stay.procedures[k].proc \in src_procedures
       \/ \E k \in 1..Len(stay.procedures) :
             TestProcedureOf(agg.index, stay.exit.date, stay.procedures[k], 38, 1)
       \/ /\ pos > 1
          /\ \E k \in 1..Len(agg.stays[pos - 1].procedures) :
                TestProcedureOf(agg.index, stay.exit.date,
                                agg.stays[pos - 1].procedures[k], 38, 1)

\* the adjustment of the IGS2 score with the age (lines 1432-1445)
Igs2SrcAdjust(age) ==
    IF age >= 80 THEN 18 ELSE IF age >= 75 THEN 16 ELSE IF age >= 70 THEN 15
    ELSE IF age >= 60 THEN 12 ELSE IF age >= 40 THEN 7 ELSE 0

\* TableIndex::FindAuthorization(scope, type): the address of the entry, or 0
FindAuthorization(index, scope, type) ==
    LET hits == {i \in 1..Len(index.authorizations) :
                    /\ index.authorizations[i].scope = scope
                    /\ index.authorizations[i].code = type}
    IN IF hits = {} THEN 0 ELSE CHOOSE i \in hits : \A j \in hits : i <= j

\* what the switch on the authorization function resolves a stay to: the
\* counter ("": a null pointer), the priority and the reanimation flag
Resolved(counter, priority, reanimation) ==
    [counter |-> counter, priority |-> priority, reanimation |-> reanimation]
Unresolved == Resolved("", 0, FALSE)

\* the switch with priority 4 for the reasi counter of the children of a
\* unit of function 9
ResolveSupplement_ChildReasiAsSi(agg, pos, function, ghs, igs2_src_adjust, prev_reanimation) ==
    CASE function = 1 ->
            IF agg.age < 2 /\ ghs # 5903 THEN Resolved("nn1", 1, FALSE) ELSE Unresolved
      [] function = 2 ->
            IF agg.age < 2 /\ ghs # 5903 THEN Resolved("nn2", 3, FALSE) ELSE Unresolved
      [] function = 3 ->
            IF agg.age < 2 /\ ghs # 5903
            THEN (IF TestSupplementRea(agg, agg.stays[pos], 1)
                  THEN Resolved("nn3", 6, TRUE) ELSE Resolved("nn2", 3, FALSE))
            ELSE Unresolved
      [] function = 4 ->
            IF TestSupplementRea(agg, agg.stays[pos], 3)
            THEN Resolved("rea", 7, TRUE) ELSE Resolved("reasi", 5, FALSE)
      [] function = 6 ->
            IF TestSupplementSrc(agg, pos, igs2_src_adjust, prev_reanimation)
            THEN Resolved("src", 2, FALSE) ELSE Unresolved
      [] function = 8 -> Resolved("si", 4, FALSE)
      [] function = 9 ->
            IF ghs = 5903 THEN Unresolved
            ELSE IF agg.age < 18
            THEN (IF TestSupplementRea(agg, agg.stays[pos], 1)
                  THEN Resolved("rep", 8, TRUE) ELSE Resolved("reasi", 4, FALSE))
            ELSE (IF TestSupplementRea(agg, agg.stays[pos], 3)
                  THEN Resolved("rea", 7, TRUE) ELSE Resolved("reasi", 5, FALSE))
      [] OTHER -> Unresolved

ResolveSupplement(agg, pos, function, ghs, igs2_src_adjust, prev_reanimation) ==
    CASE function = 1 ->
            IF agg.age < 2 /\ ghs # 5903 THEN Resolved("nn1", 1, FALSE) ELSE Unresolved
      [] function = 2 ->
            IF agg.age < 2 /\ ghs # 5903 THEN Resolved("nn2", 3, FALSE) ELSE Unresolved
      [] function = 3 ->
            IF agg.age < 2 /\ ghs # 5903
            THEN (IF TestSupplementRea(agg, agg.stays[pos], 1)
                  THEN Resolved("nn3", 6, TRUE) ELSE Resolved("nn2", 3, FALSE))
            ELSE Unresolved
      [] function = 4 ->
            IF TestSupplementRea(agg, agg.stays[pos], 3)
            THEN Resolved("rea", 7, TRUE) ELSE Resolved("reasi", 5, FALSE)
      [] function = 6 ->
            IF TestSupplementSrc(agg, pos, igs2_src_adjust, prev_reanimation)
            THEN Resolved("src", 2, FALSE) ELSE Unresolved
      [] function = 8 -> Resolved("si", 4, FALSE)
      [] function = 9 ->
            IF ghs = 5903 THEN Unresolved
            ELSE IF agg.age < 18
            THEN (IF TestSupplementRea(agg, agg.stays[pos], 1)
                  THEN Resolved("rep", 8, TRUE) ELSE Resolved("reasi", 5, FALSE))
            ELSE (IF TestSupplementRea(agg, agg.stays[pos], 3)
                  THEN Resolved("rea", 7, TRUE) ELSE Resolved("reasi", 5, FALSE))
      [] OTHER -> Unresolved

\* (int16_t)x
ToInt16(x) == ((x + 32768) % 65536) - 32768

\* *counter = (int16_t)(*counter + n); a null counter is a fault
AddDays(st, counter, n) ==
    IF counter = "" THEN [st EXCEPT !.fault = TRUE]
    ELSE [st EXCEPT !.counters[counter] = ToInt16(st.counters[counter] + n)]

\* the locals of CountSupplements before the per-stay loop
SupplementInit(agg, counters) ==
    [counters |-> counters,
     prev_reanimation |-> agg.stays[1].entry.mode = "7" /\ agg.stays[1].entry.origin = "R",
     ambu_stay |-> 0, ambu_priority |-> 0, ambu_counter |-> "", fault |-> FALSE]

\* the end of the loop body for a stay resolved to r (lines 1538-1557)
CountStay_DayToLaterStay(st, stay, pos, r) ==
    LET days == DateDiff(stay.exit.date, stay.entry.date)
                + BoolInt(stay.exit.mode = "9")
        st1 == [st EXCEPT !.prev_reanimation = r.reanimation]
    IN IF stay.exit.date # stay.entry.date
       THEN [(IF r.counter # "" THEN AddDays(st1, r.counter, days) ELSE st1)
             EXCEPT !.ambu_stay = 0, !.ambu_priority = 0]
       ELSE IF r.priority > st.ambu_priority
       THEN [st1 EXCEPT !.ambu_stay = pos, !.ambu_priority = r.priority,
                        !.ambu_counter = r.counter]
       ELSE st1
\* the end of the loop body with a stay after a run counted in full
CountStay_FullDaysAfterRun(st, stay, pos, r) ==
    LET days == DateDiff(stay.exit.date, stay.entry.date)
                + BoolInt(stay.exit.mode = "9")
        st1 == [st EXCEPT !.prev_reanimation = r.reanimation]
    IN IF stay.exit.date # stay.entry.date
       THEN [(IF st.ambu_stay # 0 /\ st.ambu_priority >= r.priority
              THEN AddDays(IF r.counter # "" THEN AddDays(st1, r.counter, days)
                           ELSE st1,
                           st.ambu_counter, 1)
              ELSE IF r.counter # "" THEN AddDays(st1, r.counter, days)
              ELSE st1)
             EXCEPT !.ambu_stay = 0, !.ambu_priority = 0]
       ELSE IF r.priority > st.ambu_priority
       THEN [st1 EXCEPT !.ambu_stay = pos, !.ambu_priority = r.priority,
                        !.ambu_counter = r.counter]
       ELSE st1

\* the end of the loop body with a run taken over at equal priority
CountStay_TakenOverAtEqualPriority(st, stay, pos, r) ==
    LET days == DateDiff(stay.exit.date, stay.entry.date)
                + BoolInt(stay.exit.mode = "9")
        st1 == [st EXCEPT !.prev_reanimation = r.reanimation]
    IN IF stay.exit.date # stay.entry.date
       THEN [(IF st.ambu_stay # 0 /\ st.ambu_priority >= r.priority
              THEN AddDays(IF r.counter # "" THEN AddDays(st1, r.counter, days - 1)
                           ELSE st1,
                           st.ambu_counter, 1)
              ELSE IF r.counter # "" THEN AddDays(st1, r.counter, days)
              ELSE st1)
             EXCEPT !.ambu_stay = 0, !.ambu_priority = 0]
       ELSE IF r.priority >= st.ambu_priority
       THEN [st1 EXCEPT !.ambu_stay = pos, !.ambu_priority = r.priority,
                        !.ambu_counter = r.counter]
       ELSE st1
CountStay(st, stay, pos, r) ==
    LET days == DateDiff(stay.exit.date, stay.entry.date)
                + BoolInt(stay.exit.mode = "9")
        st1 == [st EXCEPT !.prev_reanimation = r.reanimation]
    IN IF stay.exit.date # stay.entry.date
       THEN [(IF st.ambu_stay # 0 /\ st.ambu_priority >= r.priority
              THEN AddDays(IF r.counter # "" THEN AddDays(st1, r.counter, days - 1)
                           ELSE st1,
                           st.ambu_counter, 1)
              ELSE IF r.counter # "" THEN AddDays(st1, r.counter, days)
              ELSE st1)
             EXCEPT !.ambu_stay = 0, !.ambu_priority = 0]
       ELSE IF r.priority > st.ambu_priority
       THEN [st1 EXCEPT !.ambu_stay = pos, !.ambu_priority = r.priority,
                        !.ambu_counter = r.counter]
       ELSE st1

\* one iteration of the per-stay loop
SupplementStep(agg, authorization_set, ghs, igs2_src_adjust, st, pos, auth_info) ==
    IF auth_info = 0 THEN st
    ELSE CountStay(st, agg.stays[pos], pos,
                   ResolveSupplement(agg, pos,
                                     agg.index.authorizations[auth_info].function,
                                     ghs, igs2_src_adjust, st.prev_reanimation))

RECURSIVE SupplementLoop(_, _, _, _, _, _)
SupplementLoop(agg, authorization_set, ghs, igs2_src_adjust, st, pos) ==
    IF pos > Len(agg.stays)
    THEN (IF st.ambu_stay # 0 THEN AddDays(st, st.ambu_counter, 1) ELSE st)
    ELSE SupplementLoop(agg, authorization_set, ghs, igs2_src_adjust,
            SupplementStep(agg, authorization_set, ghs, igs2_src_adjust, st, pos,
                FindAuthorization(agg.index, "Unit",
                    GetAuthorizationType(authorization_set, agg.stays[pos].unit,
                                         agg.stays[pos].exit.date))),
            pos + 1)

\* CountSupplements(agg, authorization_set, ghs, out_counters): the state
\* the loop ends in
CountSupplements_NoSentinelTest(agg, authorization_set, ghs, counters) ==
    SupplementLoop(agg, authorization_set, ghs, Igs2SrcAdjust(agg.age),
                   SupplementInit(agg, counters), 1)
CountSupplements(agg, authorization_set, ghs, counters) ==
    IF ghs = 9999
    THEN [counters |-> counters, prev_reanimation |-> FALSE, ambu_stay |-> 0,
          ambu_priority |-> 0, ambu_counter |-> "", fault |-> FALSE]
    ELSE SupplementLoop(agg, authorization_set, ghs, Igs2SrcAdjust(agg.age),
                        SupplementInit(agg, counters), 1)

\* PriceGhs with the rebate test written duration <= exb_treshold
PriceGhsInfo_RebateAtTreshold(price_info, duration, death) ==
    IF duration <= price_info.exb_treshold /\ ~death
    THEN (IF BitAnd(price_info.flags, 1) # 0
          THEN price_info.price_cents - price_info.exb_cents
          ELSE price_info.price_cents
               - price_info.exb_cents * (price_info.exb_treshold - duration))
    ELSE IF duration + BoolInt(death) > price_info.exh_treshold
    THEN price_info.price_cents
         + price_info.exh_cents * (duration + BoolInt(death) - price_info.exh_treshold)
    ELSE price_info.price_cents

\* PriceGhs with the rebate test written without !death
PriceGhsInfo_RebateWhenDead(price_info, duration, death) ==
    IF duration < price_info.exb_treshold
    THEN (IF BitAnd(price_info.flags, 1) # 0
          THEN price_info.price_cents - price_info.exb_cents
          ELSE price_info.price_cents
               - price_info.exb_cents * (price_info.exb_treshold - duration))
    ELSE IF duration + BoolInt(death) > price_info.exh_treshold
    THEN price_info.price_cents
         + price_info.exh_cents * (duration + BoolInt(death) - price_info.exh_treshold)
    ELSE price_info.price_cents

\* PriceGhs(price_info, duration, death)
PriceGhsInfo(price_info, duration, death) ==
    IF duration < price_info.exb_treshold /\ ~death
    THEN (IF BitAnd(price_info.flags, 1) # 0
          THEN price_info.price_cents - price_info.exb_cents
          ELSE price_info.price_cents
               - price_info.exb_cents * (price_info.exb_treshold - duration))
    ELSE IF duration + BoolInt(death) > price_info.exh_treshold
    THEN price_info.price_cents
         + price_info.exh_cents * (duration + BoolInt(death) - price_info.exh_treshold)
    ELSE price_info.price_cents

\* TableIndex::FindGhsPrice(ghs, Sector::Public): the address, or 0
FindGhsPrice(index, ghs) ==
    LET hits == {i \in 1..Len(index.ghs_prices) : index.ghs_prices[i].ghs = ghs}
    IN IF hits = {} THEN 0 ELSE CHOOSE i \in hits : \A j \in hits : i <= j

\* PriceGhs(agg, ghs)
PriceGhs(agg, ghs) ==
    IF ghs = 9999 THEN 0
    ELSE IF FindGhsPrice(agg.index, ghs) = 0 THEN 0
    ELSE PriceGhsInfo(agg.index.ghs_prices[FindGhsPrice(agg.index, ghs)],
                      agg.duration, agg.stay.exit.mode = "9")

\* PriceSupplements(agg, days, out_prices): the cents per supplement type
SupplementCents(prices, days) == [t \in SupplementTypes |-> days[t] * prices[t]]

\* ClassifySummary
Summary(results_count, stays_count, ghs_total_cents, supplement_days, supplement_cents, total_cents) ==
    [results_count |-> results_count, stays_count |-> stays_count,
     ghs_total_cents |-> ghs_total_cents, supplement_days |-> supplement_days,
     supplement_cents |-> supplement_cents, total_cents |-> total_cents]

\* SupplementCounters::operator+=
AddCounters(counters, other) == [t \in SupplementTypes |-> counters[t] + other[t]]

\* the body of the loop of Summarize with every result counted as one stay
SummarizeResult_OneStayEach(summary, result) ==
    Summary(summary.results_count,
            summary.stays_count + 1,
            summary.ghs_total_cents + result.ghs_price_cents,
            AddCounters(summary.supplement_days, result.supplement_days),
            AddCounters(summary.supplement_cents, result.supplement_cents),
            summary.total_cents + result.price_cents)

\* the body of the loop of Summarize
SummarizeResult(summary, result) ==
    Summary(summary.results_count,
            summary.stays_count + Len(result.stays),
            summary.ghs_total_cents + result.ghs_price_cents,
            AddCounters(summary.supplement_days, result.supplement_days),
            AddCounters(summary.supplement_cents, result.supplement_cents),
            summary.total_cents + result.price_cents)

RECURSIVE SummarizeLoop(_, _)
SummarizeLoop(results, summary) ==
    IF results = <<>> THEN summary
    ELSE SummarizeLoop(Tail(results), SummarizeResult(summary, Head(results)))

\* Summarize(results, out_summary): the summary afterwards
Summarize(results, summary) ==
    SummarizeLoop(results,
                  [summary EXCEPT !.results_count = summary.results_count + Len(results)])

RECURSIVE SumCounters(_, _)
SumCounters(counters, types) ==
    IF types = {} THEN 0
    ELSE LET t == CHOOSE x \in types : TRUE
         IN counters[t] + SumCounters(counters, types \ {t})

(***************************************************************************)
(* ClassifyRaw                                                             *)
(***************************************************************************)
\* ClassifyResult result = {}
EmptyResult ==
    [stays |-> <<>>, ghm |-> NoGhm, main_error |-> 0, ghs |-> 0, duration |-> 0,
     supplement_days |-> NoSupplements, supplement_cents |-> NoSupplements,
     ghs_price_cents |-> 0, price_cents |-> 0]

\* What an iteration finds in the fields of agg that Aggregate returned
\* without assigning: the int in agg.duration, and whether the read through
\* agg.index goes through (with whatever prices it finds) or faults.
IndeterminateInts == {0, 5}
IndeterminateReads ==
    [duration : IndeterminateInts, deref_ok : BOOLEAN]

\* whether Aggregate got as far as assigning the fields of the aggregate
Assigned(a) == \E k \in 1..Len(a.steps) : a.steps[k] = "Merge"

\* the outcome of one iteration of the loop of ClassifyRaw
RawOutcome(result, remainder, errors, crashed) ==
    [result |-> result, remainder |-> remainder, errors |-> errors,
     crashed |-> crashed]

\* result.ghs_price_cents = PriceGhs(agg, result.ghs); result.price_cents =
\* result.ghs_price_cents + PriceSupplements(agg, days, &result.supplement_cents)
RawPrices(c, a, ghm, errors, duration, ghs, supp, ghs_price_cents, supplement_cents) ==
    RawOutcome([stays |-> c.cluster, ghm |-> ghm, main_error |-> errors.main_error,
                ghs |-> ghs, duration |-> duration,
                supplement_days |-> supp.counters,
                supplement_cents |-> supplement_cents,
                ghs_price_cents |-> ghs_price_cents,
                price_cents |-> ghs_price_cents
                                + SumCounters(supplement_cents, SupplementTypes)],
               c.remainder, errors, FALSE)

\* PriceSupplements reads agg.index->SupplementPrices(): with no index
\* assigned the read faults, or finds prices that the zero days cancel
RawSupplements(c, a, ghm, errors, duration, ghs, supp, reads) ==
    IF supp.fault \/ (~Assigned(a) /\ ~reads.deref_ok)
    THEN RawOutcome(EmptyResult, c.remainder, errors, TRUE)
    ELSE RawPrices(c, a, ghm, errors, duration, ghs, supp, PriceGhs(a.agg, ghs),
                   IF Assigned(a)
                   THEN SupplementCents(a.agg.index.supplement_prices, supp.counters)
                   ELSE NoSupplements)

\* result.ghs = ClassifyGhs(agg, authorization_set, result.ghm);
\* CountSupplements(agg, authorization_set, result.ghs, &result.supplement_days)
RawGhs(authorization_set, c, a, ghm, errors, duration, ghs, reads) ==
    RawSupplements(c, a, ghm, errors, duration, ghs,
                   CountSupplements(a.agg, authorization_set, ghs, NoSupplements),
                   reads)

\* result.main_error = errors.main_error, after the do { } while (false)
RawGhm(authorization_set, c, a, tree, errors, duration, reads) ==
    IF tree.aborted \/ ClassifyGhsAborts(a.agg, authorization_set, tree.ghm)
    THEN RawOutcome(EmptyResult, c.remainder, errors, TRUE)
    ELSE RawGhs(authorization_set, c, a, tree.ghm, ApplyErrors(errors, tree.raised),
                duration, ClassifyGhs(a.agg, authorization_set, tree.ghm), reads)

\* result.duration = agg.duration; if (result.ghm.IsError()) break;
\* result.ghm = ClassifyGhm(agg, &errors)
RawAggregated(authorization_set, c, a, reads) ==
    RawGhm(authorization_set, c, a,
           IF GhmIsError(a.ghm) THEN TreeResult(a.ghm, <<>>, FALSE)
           ELSE ClassifyGhm(a.agg),
           a.errors,
           IF Assigned(a) THEN a.agg.duration ELSE reads.duration,
           reads)

\* result.stays = Cluster(stays, cluster_mode, &stays); result.ghm = Aggregate(...)
RawClustered(table_set, authorization_set, c, errors, reads) ==
    RawAggregated(authorization_set, c,
                  Aggregate(table_set, c.cluster, UninitAggregate, <<>>, <<>>, errors),
                  reads)

\* an iteration of the loop of ClassifyRaw on the stays left, with the
\* error set of the call: errors.main_error = 0, the lists cleared
ClassifyRawIteration(table_set, authorization_set, stays, cluster_mode, errors, reads) ==
    RawClustered(table_set, authorization_set, Cluster(stays, cluster_mode),
                 [errors EXCEPT !.main_error = 0], reads)

(***************************************************************************)
(* Specification of the clustering loop                                    *)
(***************************************************************************)
IdleCluster ==
    /\ cl_input = <<>> /\ cl_mode = "Disable"
    /\ cl_stays = <<>> /\ cl_clusters = <<>>
IdleErr == es = EmptyErrorSet /\ es_calls = <<>>
\* what ClassifyRaw reuses from one cluster to the next: the error set and
\* the two lists
Scratch(errors, diagnoses, procedures) ==
    [errors |-> errors, diagnoses |-> diagnoses, procedures |-> procedures]
NoCluster ==
    [stays |-> <<>>, ghm |-> NoGhm, raised |-> <<>>, steps |-> <<>>,
     scratch |-> Scratch(EmptyErrorSet, <<>>, <<>>),
     diagnoses |-> <<>>, procedures |-> <<>>]
IdleAgg == ag_errors = EmptyErrorSet /\ ag_last = NoCluster /\ ag_count = 0

\* the locals of Classify
MainThread(pc, i, results_count, results_offset, task_start, task_len) ==
    [pc |-> pc, i |-> i, results_count |-> results_count,
     results_offset |-> results_offset,
     task_start |-> task_start, task_len |-> task_len]

\* a ClassifyRaw call over the whole input
SequentialPass(pc, stays) ==
    [pc |-> pc, stays |-> stays, results |-> <<>>, errors |-> EmptyErrorSet]

IdleBatch ==
    /\ b_stays = <<>> /\ b_mode = "Disable" /\ b_old_len = 0
    /\ b_out = [slots |-> <<>>, len |-> 0]
    /\ b_main = MainThread("idle", 0, 0, 0, 0, 0)
    /\ b_tasks = <<>>
    /\ b_seq = SequentialPass("idle", <<>>)

\* no RunGhmTree call
NoTreeCall ==
    TreeCall("idle", 0, 0, [main_diagnosis |-> "", linked_diagnosis |-> "", gnn |-> 0],
             NoGhm, <<>>, <<>>)
IdleTree == tr_stays = <<>> /\ tr_nodes = <<>> /\ tr = NoTreeCall
\* no call of a later stage
NoCall == [pc |-> "idle"]
IdleSeverity == sv = NoCall
IdleLimit == ls = NoCall
IdleGhs == gh = NoCall
IdleSupplements == su = NoCall
IdleClassify == IdleTree /\ IdleSeverity /\ IdleLimit /\ IdleGhs /\ IdleSupplements
IdlePrice == pg = NoCall
IdleSummary == sm = NoCall
IdleMainStay == ms = NoCall
IdleAggregate == ac = NoCall
IdleResolve == rs = NoCall
IdleCalls == IdlePrice /\ IdleSummary /\ IdleMainStay /\ IdleAggregate /\ IdleResolve
IdleStages == IdleClassify /\ IdleCalls

InitCluster ==
    /\ cl_input \in SeqsUpTo(ClusterStays, MaxStays)
    /\ cl_mode \in ClusterModes
    /\ cl_stays = cl_input
    /\ cl_clusters = <<>>
    /\ IdleErr /\ IdleAgg /\ IdleBatch /\ IdleStages

\* one iteration of ClassifyRaw's loop: result.stays = Cluster(stays, mode, &stays)
ClusterCall ==
    /\ Len(cl_stays) > 0
    /\ LET r == Cluster(cl_stays, cl_mode)
       IN /\ cl_clusters' = Append(cl_clusters, r.cluster)
          /\ cl_stays' = r.remainder
    /\ UNCHANGED <<cl_input, cl_mode, errVars, aggVars, batchVars, stageVars>>

NextCluster == ClusterCall
SpecCluster == InitCluster /\ [][NextCluster]_vars

(***************************************************************************)
(* Specification of the error set                                          *)
(***************************************************************************)
\* error codes passed to SetError (0 is the "no error" code), priorities
ErrorCodes == {0, 4, 66, 67, 502}
Priorities == {0, 1, 2}

InitErr ==
    /\ es = EmptyErrorSet
    /\ es_calls = <<>>
    /\ IdleCluster /\ IdleAgg /\ IdleBatch /\ IdleStages

SetErrorCall ==
    /\ Len(es_calls) < MaxCalls
    /\ \E error \in ErrorCodes, priority \in Priorities :
          /\ es' = SetError(es, error, priority)
          /\ es_calls' = Append(es_calls, <<error, priority>>)
    /\ UNCHANGED <<clusterVars, aggVars, batchVars, stageVars>>

NextErr == SetErrorCall
SpecErr == InitErr /\ [][NextErr]_vars

(***************************************************************************)
(* Specification of a worker's loop over clusters, up to the decision tree *)
(***************************************************************************)
\* Well-formed stays of one cluster of two: the first is transferred out,
\* the second continues it on the day the first ends.
FirstStay == [BaseStay EXCEPT !.exit.mode = "6", !.exit.destination = "1"]
SecondStay ==
    [BaseStay EXCEPT !.entry = [date |-> MkDate(2016, 1, 13), mode |-> "6",
                                origin |-> "1"],
                     !.exit.date = MkDate(2016, 1, 15)]

\* exit dates no table index covers
Stay2013 == [BaseStay EXCEPT !.entry.date = MkDate(2013, 1, 10),
                             !.exit.date = MkDate(2013, 1, 13)]

AggClusters ==
    {<<BaseStay>>,
     \* blocking errors of CheckMainErrors
     <<[BaseStay EXCEPT !.error_mask = {"MalformedSex"}]>>,
     <<[BaseStay EXCEPT !.entry.mode = ""]>>,
     <<[BaseStay EXCEPT !.main_diagnosis = ""]>>,
     <<[BaseStay EXCEPT !.exit.date = MkDate(2016, 1, 9)]>>,
     <<[Stay2013 EXCEPT !.entry.mode = ""]>>,
     <<[BaseStay EXCEPT !.entry.mode = "", !.session_count = 32]>>,
     <<FirstStay, [SecondStay EXCEPT !.entry.mode = "8", !.entry.origin = ""]>>,
     <<FirstStay, [SecondStay EXCEPT !.entry.origin = "2"]>>,
     <<FirstStay, [SecondStay EXCEPT !.session_count = 1]>>,
     \* advisory error only
     <<[BaseStay EXCEPT !.session_count = 32]>>,
     \* no table index
     <<Stay2013>>,
     <<[Stay2013 EXCEPT !.session_count = 32]>>,
     \* diagnoses
     <<[BaseStay EXCEPT !.main_diagnosis = "X999"]>>,
     <<[BaseStay EXCEPT !.main_diagnosis = "X999", !.session_count = 32]>>,
     <<[BaseStay EXCEPT !.main_diagnosis = "C000"]>>,
     <<[BaseStay EXCEPT !.linked_diagnosis = "X999"]>>,
     <<[BaseStay EXCEPT !.diagnoses = <<"B000", "X999">>]>>,
     <<FirstStay, SecondStay>>,
     <<FirstStay, [SecondStay EXCEPT !.main_diagnosis = "X999"]>>,
     <<[FirstStay EXCEPT !.main_diagnosis = "Z515"],
       [SecondStay EXCEPT !.main_diagnosis = "S720"]>>,
     \* procedures
     <<[BaseStay EXCEPT !.procedures =
            <<[proc |-> "AAFA001", phase |-> 0, activities |-> 2, count |-> 1,
               date |-> MkDate(2016, 1, 11)]>>]>>,
     <<[BaseStay EXCEPT !.procedures =
            <<[proc |-> "XXXX999", phase |-> 0, activities |-> 2, count |-> 1,
               date |-> MkDate(2016, 1, 11)]>>]>>}

InitAgg ==
    /\ ag_errors = EmptyErrorSet
    /\ ag_last = NoCluster
    /\ ag_count = 0
    /\ IdleCluster /\ IdleErr /\ IdleBatch /\ IdleStages

\* HeapArray<T>::Clear(reserve_capacity): the array holds no element afterwards
HeapArrayClear(array) == <<>>

\* errors.main_error = 0; diagnoses.Clear(256); procedures.Clear(512);
ClearScratch(scratch) ==
    Scratch([scratch.errors EXCEPT !.main_error = 0],
            HeapArrayClear(scratch.diagnoses), HeapArrayClear(scratch.procedures))

\* whether ClassifyRaw goes on to ClassifyGhm after Aggregate
RunsClassifyGhm(ghm) == ~GhmIsError(ghm)

\* one iteration of ClassifyRaw's loop for a cluster, until the decision
\* tree would start: errors.main_error = 0, the lists cleared, Aggregate;
\* the error set and the lists are the ones the previous iteration left
ClassifyCluster ==
    /\ ag_count < MaxClusters
    /\ \E stays \in AggClusters :
          LET scratch == ClearScratch(Scratch(ag_errors, ag_last.diagnoses,
                                              ag_last.procedures))
              r == Aggregate(TheTableSet, stays, UninitAggregate, scratch.diagnoses,
                             scratch.procedures, scratch.errors)
          IN /\ ag_errors' = r.errors
             /\ ag_last' = [stays |-> stays, ghm |-> r.ghm, raised |-> r.raised,
                            steps |-> r.steps \o (IF RunsClassifyGhm(r.ghm)
                                                  THEN <<"ClassifyGhm">> ELSE <<>>),
                            scratch |-> scratch,
                            diagnoses |-> r.diagnoses, procedures |-> r.procedures]
    /\ ag_count' = ag_count + 1
    /\ UNCHANGED <<clusterVars, errVars, batchVars, stageVars>>

NextAgg == ClassifyCluster
SpecAgg == InitAgg /\ [][NextAgg]_vars

(***************************************************************************)
(* Specification of Classify: the main thread cuts the input into tasks,   *)
(* the workers of Async run ClassifyRaw on them, Sync waits for them       *)
(***************************************************************************)
\* Stays of a batch: a transfer in two stays on one bill, and on another
\* bill a stay with a blocking error
BatchStays ==
    {FirstStay, SecondStay,
     [BaseStay EXCEPT !.bill_id = 2, !.stay_id = 2, !.entry.mode = ""]}

\* an entry of out_results: the result, and the tasks that wrote it
Slot(result, writers) == [result |-> result, writers |-> writers]
\* an entry that was there before the call
OldSlot == Slot([EmptyResult EXCEPT !.ghm = Ghm90Z00Z, !.ghs = 9999], <<>>)
\* an entry of the capacity that Grow adds
FreeSlot == Slot(EmptyResult, <<>>)

RECURSIVE Repeat(_, _)
Repeat(x, n) == IF n <= 0 THEN <<>> ELSE <<x>> \o Repeat(x, n - 1)

\* the lambda given to AddTask with its captures task_stays and
\* results_offset, and the locals of its ClassifyRaw call
Task(stays, task_start, task_len, results_offset) ==
    [task_start |-> task_start, task_len |-> task_len,
     results_offset |-> results_offset,
     stays |-> Take(stays, task_start, task_len), i |-> 0,
     errors |-> EmptyErrorSet]

Init ==
    /\ b_stays \in SeqsUpTo(BatchStays, MaxBatch) \cup {<<>>}
    /\ b_mode \in ClusterModes
    /\ b_old_len \in {0, MaxOld}
    /\ b_out = [slots |-> Repeat(OldSlot, b_old_len), len |-> b_old_len]
    /\ b_main = MainThread("start", 0, 0, 0, 0, 0)
    /\ b_tasks = <<>>
    /\ b_seq = SequentialPass("run", b_stays)
    /\ IdleCluster /\ IdleErr /\ IdleAgg /\ IdleStages

\* if (!stays.len) return;
ClassifyEmpty ==
    /\ b_main.pc = "start"
    /\ Len(b_stays) = 0
    /\ b_main' = [b_main EXCEPT !.pc = "done"]
    /\ UNCHANGED <<b_stays, b_mode, b_old_len, b_out, b_tasks, b_seq,
                   clusterVars, errVars, aggVars, stageVars>>

\* out_results->Grow(stays.len); results_count = 1;
\* results_offset = out_results->len; task_stays = stays[0]
ClassifyStart ==
    /\ b_main.pc = "start"
    /\ Len(b_stays) > 0
    /\ b_out' = [b_out EXCEPT !.slots = @ \o Repeat(FreeSlot, Len(b_stays))]
    /\ b_main' = MainThread("scan", 1, 1, b_out.len, 0, 1)
    /\ UNCHANGED <<b_stays, b_mode, b_old_len, b_tasks, b_seq,
                   clusterVars, errVars, aggVars, stageVars>>

\* results_offset += task_size, after a task was added
NextResultsOffset_ByOne(results_offset) == results_offset + 1
NextResultsOffset(results_offset) == results_offset + TaskSize

\* if (results_count % task_size == 0): the task is full
TaskIsFull_Never(results_count) == FALSE
TaskIsFull(results_count) == results_count % TaskSize = 0

\* an iteration of the loop over the stays, at a cluster boundary or not
ClassifyScan ==
    /\ b_main.pc = "scan"
    /\ b_main.i < Len(b_stays)
    /\ IF ~AreStaysCompatible(b_stays[b_main.i], b_stays[b_main.i + 1], b_mode)
       THEN IF TaskIsFull(b_main.results_count)
            THEN /\ b_tasks' = Append(b_tasks,
                                      Task(b_stays, b_main.task_start,
                                           b_main.task_len, b_main.results_offset))
                 /\ b_main' = MainThread("scan", b_main.i + 1,
                                         b_main.results_count + 1,
                                         NextResultsOffset(b_main.results_offset),
                                         b_main.i, 1)
            ELSE /\ b_tasks' = b_tasks
                 /\ b_main' = [b_main EXCEPT !.i = @ + 1, !.results_count = @ + 1,
                                             !.task_len = @ + 1]
       ELSE /\ b_tasks' = b_tasks
            /\ b_main' = [b_main EXCEPT !.i = @ + 1, !.task_len = @ + 1]
    /\ UNCHANGED <<b_stays, b_mode, b_old_len, b_out, b_seq,
                   clusterVars, errVars, aggVars, stageVars>>

\* the AddTask after the loop
ClassifyLastTask ==
    /\ b_main.pc = "scan"
    /\ b_main.i = Len(b_stays)
    /\ b_tasks' = Append(b_tasks, Task(b_stays, b_main.task_start, b_main.task_len,
                                       b_main.results_offset))
    /\ b_main' = [b_main EXCEPT !.pc = "sync"]
    /\ UNCHANGED <<b_stays, b_mode, b_old_len, b_out, b_seq,
                   clusterVars, errVars, aggVars, stageVars>>

\* out_results[i] = result, by task k: out_results is
\* out_results->ptr + results_offset
WriteSlot(slots, k, slot, result) ==
    [slots EXCEPT ![slot] = Slot(result, Append(@.writers, k))]

\* task k after an iteration of its ClassifyRaw with outcome o
TaskAfter(task, o) ==
    [task EXCEPT !.stays = o.remainder, !.i = @ + 1, !.errors = o.errors]

\* what an iteration of task k with outcome o does to the process: a fault,
\* also when the slot is past the capacity, or the slot written
WorkerWrites(k, o, slot) ==
    IF o.crashed \/ slot > Len(b_out.slots)
    THEN /\ b_main' = [b_main EXCEPT !.pc = "crashed"]
         /\ UNCHANGED <<b_out, b_tasks>>
    ELSE /\ b_out' = [b_out EXCEPT !.slots = WriteSlot(@, k, slot, o.result)]
         /\ b_tasks' = [b_tasks EXCEPT ![k] = TaskAfter(@, o)]
         /\ b_main' = b_main

\* a worker runs an iteration of the loop of ClassifyRaw for a task
WorkerStep ==
    /\ b_main.pc \in {"scan", "sync"}
    /\ \E k \in 1..Len(b_tasks), reads \in IndeterminateReads :
          /\ Len(b_tasks[k].stays) > 0
          /\ WorkerWrites(k,
                ClassifyRawIteration(TheTableSet, TheAuthorizationSet,
                                     b_tasks[k].stays, b_mode, b_tasks[k].errors,
                                     reads),
                b_tasks[k].results_offset + b_tasks[k].i + 1)
    /\ UNCHANGED <<b_stays, b_mode, b_old_len, b_seq,
                   clusterVars, errVars, aggVars, stageVars>>

\* async.Sync() returns when every task has; out_results->len += results_count
ClassifySync ==
    /\ b_main.pc = "sync"
    /\ \A k \in 1..Len(b_tasks) : Len(b_tasks[k].stays) = 0
    /\ b_out' = [b_out EXCEPT !.len = @ + b_main.results_count]
    /\ b_main' = [b_main EXCEPT !.pc = "done"]
    /\ UNCHANGED <<b_stays, b_mode, b_old_len, b_tasks, b_seq,
                   clusterVars, errVars, aggVars, stageVars>>

\* the sequential pass after an iteration with outcome o
SequentialAfter(pass, o) ==
    IF o.crashed THEN [pass EXCEPT !.pc = "crashed"]
    ELSE [pass EXCEPT !.stays = o.remainder, !.errors = o.errors,
                      !.results = Append(@, o.result)]

\* an iteration of ClassifyRaw called once on the input of the batch
SequentialStep ==
    /\ b_main.pc = "done"
    /\ b_seq.pc = "run"
    /\ Len(b_seq.stays) > 0
    /\ \E reads \in IndeterminateReads :
          b_seq' = SequentialAfter(b_seq,
                      ClassifyRawIteration(TheTableSet, TheAuthorizationSet,
                                           b_seq.stays, b_mode, b_seq.errors, reads))
    /\ UNCHANGED <<b_stays, b_mode, b_old_len, b_out, b_main, b_tasks,
                   clusterVars, errVars, aggVars, stageVars>>

Next ==
    \/ ClassifyEmpty
    \/ ClassifyStart
    \/ ClassifyScan
    \/ ClassifyLastTask
    \/ WorkerStep
    \/ ClassifySync
    \/ SequentialStep
Spec == Init /\ [][Next]_vars

(***************************************************************************)
(* Specification of RunGhmTree: one call on the aggregate of a cluster of  *)
(* two stays, over the node arrays of at most MaxNodes nodes; the second   *)
(* child of a test may lie one past the array, which the Assert of line    *)
(* 1078 guards against                                                     *)
(***************************************************************************)
TreeAggregate ==
    Aggregate(TheTableSet, tr_stays, UninitAggregate, <<>>, <<>>, EmptyErrorSet).agg
TreeAgg(nodes) == [TreeAggregate EXCEPT !.index.ghm_nodes = nodes]

\* terminal nodes: a GHM, a GHM with an error, a GHM of category 28 (refused
\* by CheckGhmErrors for a cluster of several stays) and the invalid GHM
TreeGhmNodes ==
    {GhmNode(MkGhm(6, "M", 3, ""), 0), GhmNode(MkGhm(6, "M", 2, "Z"), 80),
     GhmNode(MkGhm(28, "Z", 4, "Z"), 0), GhmNode(NoGhm, 0)}

\* test nodes of an array of len nodes: a duration test (value 0) and an age
\* test (value 1) with two children, function 28 (value 0, records error 2)
\* with one child, an age test with a single child (value 1, out of range)
\* and a function ExecuteGhmTest does not know (value -1)
TreeTestNodes(len) ==
    {TestNode(f, IF f = 3 THEN 30 ELSE 0, IF f = 22 THEN 2 ELSE 0, children_idx, 2) :
        f \in {3, 22}, children_idx \in 0..(len - 1)}
    \cup {TestNode(28, 2, 0, children_idx, 1) : children_idx \in 0..(len - 1)}
    \cup {TestNode(3, 30, 0, 0, 1), TestNode(99, 0, 0, 0, 2)}

InitTree ==
    /\ tr_stays = <<FirstStay, SecondStay>>
    /\ \E len \in 0..MaxNodes :
          tr_nodes \in [1..len -> TreeGhmNodes \cup TreeTestNodes(len)]
    /\ tr = TreeStart(TreeAggregate)
    /\ IdleCluster /\ IdleErr /\ IdleAgg /\ IdleBatch /\ IdleCalls
    /\ IdleSeverity /\ IdleLimit /\ IdleGhs /\ IdleSupplements

\* one iteration of the loop
TreeIterate ==
    /\ tr.pc = "loop"
    /\ tr' = RunGhmTreeIteration(TreeAgg(tr_nodes), tr)
    /\ UNCHANGED <<tr_stays, tr_nodes, sv, ls, gh, su, clusterVars, errVars, aggVars, batchVars, callVars>>

\* the loop left with a valid GHM: CheckGhmErrors and the return
TreeCheck ==
    /\ tr.pc = "check"
    /\ tr' = RunGhmTreeChecked(tr, CheckGhmErrors(TreeAgg(tr_nodes), tr.ghm))
    /\ UNCHANGED <<tr_stays, tr_nodes, sv, ls, gh, su, clusterVars, errVars, aggVars, batchVars, callVars>>

NextTree == TreeIterate \/ TreeCheck
SpecTree == InitTree /\ [][NextTree]_vars

(***************************************************************************)
(* RunGhmTree over the node arrays of at most MaxSwapNodes nodes made of   *)
(* the functions 34 and 35 and of a terminal node, on the aggregate of a   *)
(* stay with or without a linked diagnosis                                 *)
(***************************************************************************)
\* stays: no linked diagnosis, one that function 34 swaps (B000: cmd 18;
\* D000: cmd 0, jump 0), one it leaves (D003: cmd 0, jump 3), and the main
\* diagnosis given as the linked one too
SwapStays ==
    {[BaseStay EXCEPT !.linked_diagnosis = linked_diagnosis] :
        linked_diagnosis \in {"", "A000", "B000", "D000", "D003"}}

\* function 34 with its one child, function 35 with its two children, and
\* a terminal node
SwapNodes(len) ==
    {TestNode(34, 0, 0, children_idx, 1) : children_idx \in 0..(len - 1)}
    \cup {TestNode(35, 0, 0, children_idx, 2) : children_idx \in 0..(len - 2)}
    \cup {GhmNode(MkGhm(6, "M", 3, ""), 0)}

InitSwap ==
    /\ \E stay \in SwapStays :
          /\ Aggregate(TheTableSet, <<stay>>, UninitAggregate, <<>>, <<>>,
                       EmptyErrorSet).ghm = NoGhm
          /\ tr_stays = <<stay>>
    /\ \E len \in 1..MaxSwapNodes : tr_nodes \in [1..len -> SwapNodes(len)]
    /\ tr = TreeStart(TreeAggregate)
    /\ IdleCluster /\ IdleErr /\ IdleAgg /\ IdleBatch /\ IdleCalls
    /\ IdleSeverity /\ IdleLimit /\ IdleGhs /\ IdleSupplements

SpecSwap == InitSwap /\ [][NextTree]_vars

(***************************************************************************)
(* Specification of ClassifyGhm: RunGhmTree as above, then RunGhmSeverity  *)
(* on its outcome, with a table of GHM roots that lists the roots 90Z00    *)
(* and 90Z03 or does not                                                   *)
(***************************************************************************)
ClassifyGhmRoots ==
    {IndexGhmRoots,
     IndexGhmRoots \o <<RootEntry(90, "Z", 0, FALSE, 0, 0, 0, 0, 0),
                        RootEntry(90, "Z", 3, FALSE, 0, 0, 0, 0, 0)>>}

\* the terminal nodes above and the error GHM with its error
ClassifyGhmNodes(len) ==
    TreeGhmNodes \cup TreeTestNodes(len) \cup {GhmNode(Ghm90Z00Z, 80)}

\* the error set Aggregate has left when ClassifyGhm is called
ClassifyGhmErrors ==
    Aggregate(TheTableSet, tr_stays, UninitAggregate, <<>>, <<>>, EmptyErrorSet).errors

InitClassifyGhm ==
    /\ tr_stays = <<FirstStay, SecondStay>>
    /\ \E len \in 0..MaxNodes : tr_nodes \in [1..len -> ClassifyGhmNodes(len)]
    /\ tr = TreeStart(TreeAggregate)
    /\ \E ghm_roots \in ClassifyGhmRoots : sv = [pc |-> "tree", ghm_roots |-> ghm_roots]
    /\ IdleCluster /\ IdleErr /\ IdleAgg /\ IdleBatch /\ IdleCalls
    /\ IdleLimit /\ IdleGhs /\ IdleSupplements

\* ghm = RunGhmSeverity(agg, ghm, out_errors); return ghm: the GHM and the
\* error set after RunGhmTree, and after ClassifyGhm
ClassifyGhmReturn ==
    /\ tr.pc = "done" /\ sv.pc = "tree"
    /\ \E agg \in {[TreeAgg(tr_nodes) EXCEPT !.index.ghm_roots = sv.ghm_roots]} :
       \E out \in {ClassifyGhmTree(agg, TreeResult(tr.ghm, tr.raised, FALSE))} :
          sv' = [pc |-> "classified", ghm_roots |-> sv.ghm_roots,
                 tree |-> [ghm |-> tr.ghm,
                           errors |-> ApplyErrors(ClassifyGhmErrors, tr.raised)],
                 out |-> [ghm |-> out.ghm,
                          errors |-> ApplyErrors(ClassifyGhmErrors, out.raised)]]
    /\ UNCHANGED <<treeVars, ls, gh, su, clusterVars, errVars, aggVars, batchVars, callVars>>

NextClassifyGhm == TreeIterate \/ TreeCheck \/ ClassifyGhmReturn
SpecClassifyGhm == InitClassifyGhm /\ [][NextClassifyGhm]_vars

(***************************************************************************)
(* Specification of RunGhmSeverity: one call on the aggregate of a single  *)
(* stay, for a GHM of root 06M03 (or of a root the table does not hold)    *)
(* and a table entry of that root with the policies drawn below            *)
(***************************************************************************)
\* stays of 0 to MaxDuration days, of a child, an adult and an old patient,
\* with and without an associated diagnosis of severity 2, with one of
\* severity 1 that is excluded from the age of 2 on, whether the patient
\* died or not
SeverityStays ==
    {[BaseStay EXCEPT !.exit.date = Jan16(10 + d), !.birthdate = MkDate(y, 3, 5),
                      !.diagnoses = ds, !.exit.mode = m] :
        d \in 0..MaxDuration, y \in {1930, 1980, 2015},
        ds \in {<<>>, <<"B000">>, <<"P000">>, <<"P000", "B000">>}, m \in {"8", "9"}}

\* the entries of root 06M03: ambulatory allowed or not, no short duration
\* treshold or one of 2 or 4 days
SeverityRoots ==
    {RootEntry(6, "M", 3, allow_ambulatory, short_duration_treshold, 2, 2, 80, 2) :
        allow_ambulatory \in BOOLEAN, short_duration_treshold \in {0, 2, 4}}
    \cup {RootEntry(6, "M", 3, FALSE, 0, 2, 0, 80, 1),
          RootEntry(6, "M", 3, FALSE, 0, 2, 3, 80, 3),
          \* a root that excludes the diagnoses with bit 2 of byte 1 (B000)
          [RootEntry(6, "M", 3, FALSE, 0, 2, 2, 80, 2)
              EXCEPT !.cma_exclusion_mask = [offset |-> 1, value |-> 2]]}

\* the GHM the tree gave: with no mode, a childbirth mode or another mode,
\* and one of a root missing from the table
SeverityGhms ==
    {MkGhm(6, "M", 3, mode) : mode \in {"", "A", "C", "Z"}} \cup {MkGhm(6, "M", 9, "")}

SeverityAggregate(stay, ghm_root_info) ==
    [Aggregate(TheTableSet, <<stay>>, UninitAggregate, <<>>, <<>>, EmptyErrorSet).agg
        EXCEPT !.index.ghm_roots = <<ghm_root_info>>]

InitSeverity ==
    /\ \E stay \in SeverityStays, ghm_root_info \in SeverityRoots, ghm \in SeverityGhms :
          /\ Aggregate(TheTableSet, <<stay>>, UninitAggregate, <<>>, <<>>,
                       EmptyErrorSet).ghm = NoGhm
          /\ sv = [pc |-> "call", stay |-> stay, ghm_root_info |-> ghm_root_info,
                   ghm |-> ghm]
    /\ IdleCluster /\ IdleErr /\ IdleAgg /\ IdleBatch /\ IdleCalls
    /\ IdleTree /\ IdleLimit /\ IdleGhs /\ IdleSupplements

\* the call and its return: the aggregate's duration and age, the GHM
\* returned and the SetError calls made
SeverityCall ==
    /\ sv.pc = "call"
    /\ sv' = [pc |-> "done", stay |-> sv.stay, ghm_root_info |-> sv.ghm_root_info,
              ghm |-> sv.ghm,
              duration |-> SeverityAggregate(sv.stay, sv.ghm_root_info).duration,
              age |-> SeverityAggregate(sv.stay, sv.ghm_root_info).age,
              out |-> RunGhmSeverity(SeverityAggregate(sv.stay, sv.ghm_root_info),
                                     sv.ghm)]
    /\ UNCHANGED <<clusterVars, errVars, aggVars, batchVars, callVars, treeVars, ls, gh, su>>

NextSeverity == SeverityCall
SpecSeverity == InitSeverity /\ [][NextSeverity]_vars

(***************************************************************************)
(* Specification of LimitSeverityWithDuration: one call with a severity of *)
(* 0 to 3 and a duration of 0 to MaxDays, or one call of RunGhmSeverity    *)
(***************************************************************************)
InitLimit ==
    /\ \E severity \in 0..3, duration \in 0..MaxDays :
          ls = [pc |-> "call", severity |-> severity, duration |-> duration]
    /\ IdleCluster /\ IdleErr /\ IdleAgg /\ IdleBatch /\ IdleCalls
    /\ IdleTree /\ IdleSeverity /\ IdleGhs /\ IdleSupplements

LimitCall ==
    /\ ls.pc = "call"
    /\ ls' = [pc |-> "done", severity |-> ls.severity, duration |-> ls.duration,
              out |-> LimitSeverityWithDuration(ls.severity, ls.duration)]
    /\ UNCHANGED <<clusterVars, errVars, aggVars, batchVars, callVars, treeVars, sv, gh, su>>

\* either call: LimitSeverityWithDuration alone, or inside RunGhmSeverity
InitLevels == InitLimit \/ InitSeverity
NextLevels == LimitCall \/ SeverityCall
SpecLevels == InitLevels /\ [][NextLevels]_vars

(***************************************************************************)
(* Specification of ClassifyGhs: one call on the aggregate of a cluster,   *)
(* for a GHM and a table of at most MaxRules access rules                  *)
(***************************************************************************)
\* clusters: a stay of 3 days, the same in a UHCD unit (type 7), the same
\* in a unit of type 4 without a night, a UHCD stay of one night and a
\* cluster of two stays, the first one in a unit of type 4; a UHCD stay
\* without a night, one that ends with the death of the patient, and two
\* stays of which both and only the first are in a UHCD unit
GhsClusters ==
    {<<BaseStay>>,
     <<[BaseStay EXCEPT !.unit = 10007]>>,
     <<[BaseStay EXCEPT !.unit = 10004, !.exit.date = Jan16(10)]>>,
     <<[BaseStay EXCEPT !.unit = 10007, !.exit.date = Jan16(11)]>>,
     <<[FirstStay EXCEPT !.unit = 10004], SecondStay>>,
     <<[BaseStay EXCEPT !.unit = 10007, !.exit.date = Jan16(10)]>>,
     <<[BaseStay EXCEPT !.unit = 10007, !.exit.mode = "9"]>>,
     <<[FirstStay EXCEPT !.unit = 10007], [SecondStay EXCEPT !.unit = 10007]>>,
     <<[FirstStay EXCEPT !.unit = 10007], SecondStay>>}

\* the GHM handed to ClassifyGhs: invalid, the error GHM, GHM with access
\* rules and one without
GhsGhms ==
    {NoGhm, Ghm90Z00Z, Ghm90Z03Z, MkGhm(6, "M", 3, "1"), MkGhm(6, "M", 2, "A"),
     MkGhm(28, "Z", 4, "Z"), MkGhm(6, "M", 3, "2")}

\* access rules of two GHM, with or without a unit authorization and a
\* minimal duration
GhsRuleShapes ==
    {GhsEntry(ghm, 0, unit_authorization, 0, minimal_duration, 0) :
        ghm \in {MkGhm(6, "M", 3, "1"), MkGhm(6, "M", 2, "A")},
        unit_authorization \in {0, 4}, minimal_duration \in {0, 4}}

\* the table of access rules: the rule at position k leads to GHS 1900 + k
GhsRules(shapes) == [k \in 1..Len(shapes) |-> [shapes[k] EXCEPT !.ghs = 1900 + k]]

GhsAggregate(stays, rules) ==
    [Aggregate(TheTableSet, stays, UninitAggregate, <<>>, <<>>, EmptyErrorSet).agg
        EXCEPT !.index.ghs = rules]

\* the error set of the caller when ClassifyGhs is called: the one
\* Aggregate has left
GhsErrors(stays) ==
    Aggregate(TheTableSet, stays, UninitAggregate, <<>>, <<>>, EmptyErrorSet).errors

InitGhs ==
    /\ \E stays \in GhsClusters, ghm \in GhsGhms,
          shapes \in SeqsUpTo(GhsRuleShapes, MaxRules) \cup {<<>>} :
          gh = [pc |-> "call", stays |-> stays, ghm |-> ghm, rules |-> GhsRules(shapes),
                agg |-> GhsAggregate(stays, GhsRules(shapes)),
                errors |-> GhsErrors(stays)]
    /\ IdleCluster /\ IdleErr /\ IdleAgg /\ IdleBatch /\ IdleCalls
    /\ IdleTree /\ IdleSeverity /\ IdleLimit /\ IdleSupplements

\* the call: the GHS it returns, the GHM it looked the rules up with, and
\* the aggregate, the error set and the GHM of the caller afterwards
GhsCall ==
    /\ gh.pc = "call"
    /\ gh' = [pc |-> "done", stays |-> gh.stays, ghm |-> gh.ghm, rules |-> gh.rules,
              agg |-> gh.agg,
              errors |-> ClassifyGhsErrors(gh.agg, TheAuthorizationSet, gh.ghm, gh.errors),
              lookup |-> ClassifyGhsLookup(gh.agg, TheAuthorizationSet, gh.ghm),
              out |-> ClassifyGhs(gh.agg, TheAuthorizationSet, gh.ghm)]
    /\ UNCHANGED <<clusterVars, errVars, aggVars, batchVars, callVars, treeVars, sv, ls, su>>

NextGhs == GhsCall
SpecGhs == InitGhs /\ [][NextGhs]_vars

(***************************************************************************)
(* Specification of TestGhs: one call on the aggregate of a cluster, for   *)
(* one access rule with or without a unit authorization                    *)
(***************************************************************************)
\* the clusters of ClassifyGhs and two more: a stay without a night in a
\* unit of type 4 followed by two nights elsewhere, and the reverse
TestGhsClusters ==
    GhsClusters
    \cup {<<[FirstStay EXCEPT !.unit = 10004, !.exit.date = Jan16(10)],
            [SecondStay EXCEPT !.entry.date = Jan16(10), !.exit.date = Jan16(12)]>>,
          <<[FirstStay EXCEPT !.exit.date = Jan16(12)],
            [SecondStay EXCEPT !.unit = 10004, !.entry.date = Jan16(12),
                               !.exit.date = Jan16(12)]>>}

\* access rules that test the unit authorization (none, type 4, type 7)
\* and the minimal duration only
TestGhsRules ==
    {GhsEntry(MkGhm(6, "M", 3, "1"), 1901, unit_authorization, 0, minimal_duration, 0) :
        unit_authorization \in {0, 4, 7}, minimal_duration \in {0, 1, 2, 4, 6}}

InitTestGhs ==
    /\ \E stays \in TestGhsClusters, ghs_access_info \in TestGhsRules :
          /\ Aggregate(TheTableSet, stays, UninitAggregate, <<>>, <<>>,
                       EmptyErrorSet).ghm = NoGhm
          /\ gh = [pc |-> "test", stays |-> stays, ghs_access_info |-> ghs_access_info,
                   agg |-> GhsAggregate(stays, <<ghs_access_info>>)]
    /\ IdleCluster /\ IdleErr /\ IdleAgg /\ IdleBatch /\ IdleCalls
    /\ IdleTree /\ IdleSeverity /\ IdleLimit /\ IdleSupplements

\* the call: its result, and the duration it has when it reaches the test
\* of the minimal duration
TestGhsCall ==
    /\ gh.pc = "test"
    /\ gh' = [pc |-> "tested", stays |-> gh.stays, ghs_access_info |-> gh.ghs_access_info,
              agg |-> gh.agg,
              duration |-> GhsDuration(gh.agg, TheAuthorizationSet, gh.ghs_access_info),
              out |-> TestGhs(gh.agg, TheAuthorizationSet, gh.ghs_access_info)]
    /\ UNCHANGED <<clusterVars, errVars, aggVars, batchVars, callVars, treeVars, sv, ls, su>>

NextTestGhs == TestGhsCall
SpecTestGhs == InitTestGhs /\ [][NextTestGhs]_vars

(***************************************************************************)
(* Specification of the supplement stage of ClassifyRaw: one call of       *)
(* CountSupplements, then PriceGhs, on the aggregate of a cluster of at    *)
(* most MaxSupplementStays stays moving from unit to unit                  *)
(***************************************************************************)
\* what a stay of the cluster is: its unit, its nights and its IGS2 score.
\* Units of type 1 (function 4: reasi, priority 5) and 2 (function 8: si,
\* priority 4) without a night or with two, and stays of two nights in a
\* unit of type 3 (function 6: src, priority 2, with the IGS2 score; no
\* counter without it) and of type 7 (no supplement function)
SupplementKinds ==
    {[unit |-> unit, nights |-> nights, igs2 |-> 0] :
        unit \in {10001, 10002}, nights \in {0, 2}}
    \cup {[unit |-> 10003, nights |-> 2, igs2 |-> 20],
          [unit |-> 10003, nights |-> 2, igs2 |-> 0],
          [unit |-> 10007, nights |-> 2, igs2 |-> 0]}

RECURSIVE NightsBefore(_, _)
NightsBefore(kinds, k) ==
    IF k <= 1 THEN 0 ELSE kinds[k - 1].nights + NightsBefore(kinds, k - 1)

\* the stays of the cluster: each one starts the day the one before ends
\* and the patient is transferred from one to the next; died: exit mode '9'
SupplementStays(kinds, died) ==
    [k \in 1..Len(kinds) |->
        [BaseStay EXCEPT
            !.stay_id = k,
            !.unit = kinds[k].unit,
            !.igs2 = kinds[k].igs2,
            !.entry = [date |-> Jan16(10 + NightsBefore(kinds, k)),
                       mode |-> IF k = 1 THEN "8" ELSE "6",
                       origin |-> IF k = 1 THEN "" ELSE "1"],
            !.exit = [date |-> Jan16(10 + NightsBefore(kinds, k) + kinds[k].nights),
                      mode |-> IF k < Len(kinds) THEN "6"
                               ELSE IF died THEN "9" ELSE "8",
                      destination |-> IF k < Len(kinds) THEN "1" ELSE ""]]]

SupplementAggregate(stays) ==
    Aggregate(TheTableSet, stays, UninitAggregate, <<>>, <<>>, EmptyErrorSet)

\* the GHS and the counters before the call: result.supplement_days of
\* ClassifyRaw (all zero) with GHS 1901 or 9999, or counters a caller has
\* already counted in with GHS 9999
SupplementCalls ==
    {<<1901, NoSupplements>>, <<9999, NoSupplements>>,
     <<9999, [NoSupplements EXCEPT !["si"] = 3, !["rea"] = 1]>>}

InitSupplements ==
    /\ \E kinds \in SeqsUpTo(SupplementKinds, MaxSupplementStays), died \in BOOLEAN,
          call \in SupplementCalls :
          /\ SupplementAggregate(SupplementStays(kinds, died)).ghm = NoGhm
          /\ su = [pc |-> "call", kinds |-> kinds, died |-> died,
                   stays |-> SupplementStays(kinds, died), ghs |-> call[1],
                   counters |-> call[2]]
    /\ IdleCluster /\ IdleErr /\ IdleAgg /\ IdleBatch /\ IdleCalls
    /\ IdleTree /\ IdleSeverity /\ IdleLimit /\ IdleGhs

\* lines 1645 and 1647 of ClassifyRaw: the counters after CountSupplements,
\* whether it went through a null counter, and the price PriceGhs gives
SupplementsCall ==
    /\ su.pc = "call"
    /\ LET agg == SupplementAggregate(su.stays).agg
       IN su' = [pc |-> "done", kinds |-> su.kinds, died |-> su.died,
                 stays |-> su.stays, ghs |-> su.ghs, counters |-> su.counters,
                 out |-> CountSupplements(agg, TheAuthorizationSet, su.ghs,
                                          su.counters),
                 ghs_price_cents |-> PriceGhs(agg, su.ghs)]
    /\ UNCHANGED <<clusterVars, errVars, aggVars, batchVars, callVars, treeVars, sv, ls, gh>>

NextSupplements == SupplementsCall
SpecSupplements == InitSupplements /\ [][NextSupplements]_vars

(***************************************************************************)
(* The per-stay loop of CountSupplements, one iteration at a time, on the  *)
(* aggregate of a cluster of at most MaxSupplementStays stays of an adult  *)
(* or of a child, with the counters of ClassifyRaw (all zero)              *)
(***************************************************************************)
\* units of type 1 (function 4: reasi), 2 (function 8: si) and 4 (function
\* 1: no counter from the age of 2 on) without a night or with two, a stay
\* without a night in a unit of type 13 (function 9: reasi), and stays of
\* two nights in a unit of type 3 (function 6: src) and of type 7 (no
\* supplement function)
CountLoopKinds ==
    {[unit |-> unit, nights |-> nights, igs2 |-> 0] :
        unit \in {10001, 10002, 10004}, nights \in {0, 2}}
    \cup {[unit |-> 10013, nights |-> 0, igs2 |-> 0],
          [unit |-> 10003, nights |-> 2, igs2 |-> 20],
          [unit |-> 10007, nights |-> 2, igs2 |-> 0]}

CountLoopBirthdates == {MkDate(1980, 3, 5), MkDate(2006, 3, 5)}

CountLoopStays(kinds, died, birthdate) ==
    [k \in 1..Len(kinds) |->
        [SupplementStays(kinds, died)[k] EXCEPT !.birthdate = birthdate]]

InitCountLoop ==
    /\ \E kinds \in SeqsUpTo(CountLoopKinds, MaxSupplementStays),
          died \in BOOLEAN, birthdate \in CountLoopBirthdates :
          \E aggregate \in {SupplementAggregate(CountLoopStays(kinds, died, birthdate))} :
             /\ aggregate.ghm = NoGhm
             /\ su = [pc |-> "loop", kinds |-> kinds,
                      stays |-> CountLoopStays(kinds, died, birthdate),
                      agg |-> aggregate.agg, ghs |-> 1901,
                      pos |-> 1, resolved |-> Unresolved,
                      st |-> SupplementInit(aggregate.agg, NoSupplements)]
    /\ IdleCluster /\ IdleErr /\ IdleAgg /\ IdleBatch /\ IdleCalls
    /\ IdleTree /\ IdleSeverity /\ IdleLimit /\ IdleGhs

\* one iteration of the loop (lines 1452-1558): the locals afterwards and
\* what the switch resolved the stay to
CountLoopIterate ==
    /\ su.pc = "loop" /\ su.pos <= Len(su.stays)
    /\ \E agg \in {su.agg} :
       \E auth_info \in {FindAuthorization(agg.index, "Unit",
                             GetAuthorizationType(TheAuthorizationSet,
                                                  agg.stays[su.pos].unit,
                                                  agg.stays[su.pos].exit.date))} :
          su' = [su EXCEPT
                   !.pos = @ + 1,
                   !.resolved =
                       IF auth_info = 0 THEN Unresolved
                       ELSE ResolveSupplement(agg, su.pos,
                                agg.index.authorizations[auth_info].function, su.ghs,
                                Igs2SrcAdjust(agg.age), su.st.prev_reanimation),
                   !.st = SupplementStep(agg, TheAuthorizationSet, su.ghs,
                                         Igs2SrcAdjust(agg.age), su.st, su.pos,
                                         auth_info)]
    /\ UNCHANGED <<clusterVars, errVars, aggVars, batchVars, callVars, treeVars, sv, ls, gh>>

\* the end of the loop (lines 1559-1561): the pending run adds its day
CountLoopEnd ==
    /\ su.pc = "loop" /\ su.pos > Len(su.stays)
    /\ su' = [su EXCEPT !.pc = "done",
                        !.st = IF su.st.ambu_stay # 0
                               THEN AddDays(su.st, su.st.ambu_counter, 1) ELSE su.st]
    /\ UNCHANGED <<clusterVars, errVars, aggVars, batchVars, callVars, treeVars, sv, ls, gh>>

NextCountLoop == CountLoopIterate \/ CountLoopEnd
SpecCountLoop == InitCountLoop /\ [][NextCountLoop]_vars

(***************************************************************************)
(* PriceGhs(price_info, duration, death) on its own: every price info of   *)
(* GhsPriceInfos, every duration up to MaxDuration, alive and dead.        *)
(***************************************************************************)
\* GhsPriceInfo values: both tresholds from 0 (none) to MaxTreshold in either
\* order, with and without cents, every combination of ExbOnce and Minoration
GhsPriceInfos ==
    {PriceEntry(1900, 10000, exb_treshold, exb_cents, exh_treshold, exh_cents, flags) :
        exb_treshold \in 0..MaxTreshold, exb_cents \in {0, 500},
        exh_treshold \in 0..MaxTreshold, exh_cents \in {0, 300}, flags \in 0..3}

InitPrice ==
    /\ \E price_info \in GhsPriceInfos, duration \in 0..MaxDuration, death \in BOOLEAN :
          pg = [pc |-> "call", price_info |-> price_info, duration |-> duration,
                death |-> death]
    /\ IdleCluster /\ IdleErr /\ IdleAgg /\ IdleBatch /\ IdleClassify /\ IdleSummary
    /\ IdleMainStay /\ IdleAggregate /\ IdleResolve

\* the call returns price_cents
PriceCall ==
    /\ pg.pc = "call"
    /\ pg' = [pc |-> "done", price_info |-> pg.price_info, duration |-> pg.duration,
              death |-> pg.death,
              out |-> PriceGhsInfo(pg.price_info, pg.duration, pg.death)]
    /\ UNCHANGED <<clusterVars, errVars, aggVars, batchVars, classifyVars, sm, ms, ac, rs>>

NextPrice == PriceCall
SpecPrice == InitPrice /\ [][NextPrice]_vars

(***************************************************************************)
(* Summarize: a result sequence cut into consecutive parts, one Summarize  *)
(* call per part into the same summary, the parts taken in any order.      *)
(***************************************************************************)
\* results as ClassifyRaw writes them: a two-stay cluster with two days of
\* intensive care, a failed cluster, a one-stay cluster with reanimation
\* and continuous monitoring
SummaryResults ==
    {[EmptyResult EXCEPT !.stays = <<FirstStay, SecondStay>>,
                         !.ghm = MkGhm(6, "M", 3, "1"), !.ghs = 1901, !.duration = 5,
                         !.supplement_days = [NoSupplements EXCEPT !["si"] = 2],
                         !.supplement_cents = [NoSupplements EXCEPT !["si"] = 80000],
                         !.ghs_price_cents = 250000, !.price_cents = 330000],
     [EmptyResult EXCEPT !.stays = <<FirstStay>>, !.ghm = Ghm90Z00Z, !.ghs = 9999,
                         !.main_error = 35],
     [EmptyResult EXCEPT !.stays = <<SecondStay>>,
                         !.ghm = MkGhm(6, "M", 3, "2"), !.ghs = 1902, !.duration = 3,
                         !.supplement_days = [NoSupplements EXCEPT !["rea"] = 1,
                                                                   !["src"] = 3],
                         !.supplement_cents = [NoSupplements EXCEPT !["rea"] = 80000,
                                                                    !["src"] = 96000],
                         !.ghs_price_cents = 30000, !.price_cents = 206000]}

\* the summary handed to the first call: a fresh one, or one that already
\* holds the totals of an earlier batch
ZeroSummary == Summary(0, 0, 0, NoSupplements, NoSupplements, 0)
SummaryStarts ==
    {ZeroSummary,
     Summary(2, 3, 70000, [NoSupplements EXCEPT !["si"] = 1],
             [NoSupplements EXCEPT !["si"] = 40000], 110000)}

\* the ways of cutting n results into consecutive non-empty parts: the
\* lengths of the parts, in order
RECURSIVE Splits(_)
Splits(n) ==
    IF n = 0 THEN {<<>>}
    ELSE UNION {{<<k>> \o rest : rest \in Splits(n - k)} : k \in 1..n}

RECURSIVE SumLens(_)
SumLens(lens) == IF lens = <<>> THEN 0 ELSE Head(lens) + SumLens(Tail(lens))

\* the k-th part of the results
SummaryPart(results, lens, k) == Take(results, SumLens(SubSeq(lens, 1, k - 1)), lens[k])

InitSummary ==
    /\ \E results \in SeqsUpTo(SummaryResults, MaxResults), start \in SummaryStarts :
          \E lens \in Splits(Len(results)) :
             sm = [pc |-> "call", results |-> results, lens |-> lens, start |-> start,
                   summarized |-> {}, summary |-> start]
    /\ IdleCluster /\ IdleErr /\ IdleAgg /\ IdleBatch /\ IdleClassify /\ IdlePrice
    /\ IdleMainStay /\ IdleAggregate /\ IdleResolve

\* Summarize(part, &summary) for a part not summarized yet
SummarizeCall ==
    /\ sm.pc = "call"
    /\ \E k \in (1..Len(sm.lens)) \ sm.summarized :
          sm' = [sm EXCEPT !.summarized = sm.summarized \cup {k},
                           !.summary = Summarize(SummaryPart(sm.results, sm.lens, k),
                                                 sm.summary)]
    /\ UNCHANGED <<clusterVars, errVars, aggVars, batchVars, classifyVars, pg, ms, ac, rs>>

NextSummary == SummarizeCall
SpecSummary == InitSummary /\ [][NextSummary]_vars

(***************************************************************************)
(* FindMainStay on its own: clusters of two stays and more, as Aggregate   *)
(* hands them over with the duration of the cluster.                       *)
(***************************************************************************)
MainStayKind(main_diagnosis, nights, proc) ==
    [main_diagnosis |-> main_diagnosis, nights |-> nights, proc |-> proc]

\* the stays of a cluster: ordinary, trauma (S720) and social-circumstances
\* (Z515, Z502) main diagnoses with none to three nights, the two other
\* diagnoses that change the score, and stays with a procedure that gives a
\* priority or ends the selection
MainStayKinds ==
    {MainStayKind(d, n, "") : d \in {"A000", "S720"}, n \in {0, 2, 3}}
    \cup {MainStayKind("Z515", 2, ""), MainStayKind("Z515", 3, ""),
          MainStayKind("Z502", 0, ""),
          MainStayKind("T000", 2, ""), MainStayKind("T002", 1, ""),
          MainStayKind("A000", 2, "FFFA006"), MainStayKind("A000", 0, "GGFA007"),
          MainStayKind("A000", 0, "HHFA008"), MainStayKind("A000", 1, "BBFA002")}

MainStayStays(kinds) ==
    [k \in 1..Len(kinds) |->
        [BaseStay EXCEPT
            !.stay_id = k,
            !.main_diagnosis = kinds[k].main_diagnosis,
            !.entry = [date |-> Jan16(2 + NightsBefore(kinds, k)),
                       mode |-> IF k = 1 THEN "8" ELSE "6",
                       origin |-> IF k = 1 THEN "" ELSE "1"],
            !.exit = [date |-> Jan16(2 + NightsBefore(kinds, k + 1)),
                      mode |-> IF k = Len(kinds) THEN "8" ELSE "6",
                      destination |-> IF k = Len(kinds) THEN "" ELSE "1"],
            !.procedures =
                IF kinds[k].proc = "" THEN <<>>
                ELSE <<[proc |-> kinds[k].proc, phase |-> 0, activities |-> 2,
                        count |-> 1, date |-> Jan16(2 + NightsBefore(kinds, k))]>>]]

InitMainStay ==
    /\ \E kinds \in SeqsUpTo(MainStayKinds, MaxMainStays) :
          /\ Len(kinds) > 1
          /\ ms = [pc |-> "call", kinds |-> kinds, stays |-> MainStayStays(kinds)]
    /\ IdleCluster /\ IdleErr /\ IdleAgg /\ IdleBatch /\ IdleClassify
    /\ IdlePrice /\ IdleSummary /\ IdleAggregate /\ IdleResolve

\* main_stay = FindMainStay(*out_agg->index, stays, out_agg->duration)
MainStayCall ==
    /\ ms.pc = "call"
    /\ ms' = [pc |-> "done", kinds |-> ms.kinds, stays |-> ms.stays,
              main_stay |-> FindMainStay(TheIndex, ms.stays, SumDurations(ms.stays))]
    /\ UNCHANGED <<clusterVars, errVars, aggVars, batchVars, classifyVars, pg, sm, ac, rs>>

NextMainStay == MainStayCall
SpecMainStay == InitMainStay /\ [][NextMainStay]_vars

(***************************************************************************)
(* Aggregate on its own, with fresh lists and a fresh error set: clusters  *)
(* whose stays repeat diagnoses and procedures, name unknown ones, and     *)
(* differ in length, IGS2 and exit.                                        *)
(***************************************************************************)
Realisation(proc, phase, activities) ==
    [proc |-> proc, phase |-> phase, activities |-> activities]

AggregateKind(main_diagnosis, linked_diagnosis, diagnoses, procedures, nights, igs2) ==
    [main_diagnosis |-> main_diagnosis, linked_diagnosis |-> linked_diagnosis,
     diagnoses |-> diagnoses, procedures |-> procedures, nights |-> nights,
     igs2 |-> igs2]

\* the stays of a cluster. Diagnoses: known ones, repeated within the stay
\* and across the lists, and the unknown X999. Procedures: AAFA001 once and
\* twice, CCFA003 in phase 0 (the dictionary has it in phase 1 only), DDFA004
\* (in the dictionary from 12 january 2016 on), the unknown XXXX999.
AggregateKinds ==
    {AggregateKind("A000", "", <<>>, <<>>, 2, 0),
     AggregateKind("A000", "B000", <<>>, <<>>, 0, 20),
     AggregateKind("B000", "", <<"A000", "B000">>, <<>>, 3, 5),
     AggregateKind("A000", "", <<"S720", "S720", "X999">>, <<>>, 2, 0),
     AggregateKind("S720", "A000", <<"A000">>,
                   <<Realisation("AAFA001", 0, 2)>>, 1, 30),
     AggregateKind("A000", "", <<>>,
                   <<Realisation("AAFA001", 0, 2), Realisation("FFFA006", 0, 2),
                     Realisation("AAFA001", 0, 2)>>, 2, 0),
     AggregateKind("A000", "", <<>>, <<Realisation("CCFA003", 0, 4)>>, 2, 0),
     AggregateKind("A000", "", <<>>, <<Realisation("CCFA003", 1, 2)>>, 0, 0),
     AggregateKind("A000", "", <<>>, <<Realisation("DDFA004", 0, 4)>>, 9, 10),
     AggregateKind("A000", "", <<>>, <<Realisation("DDFA004", 0, 4)>>, 2, 0),
     AggregateKind("A000", "", <<>>, <<Realisation("DDFA004", 1, 4)>>, 2, 0),
     AggregateKind("A000", "", <<>>,
                   <<Realisation("XXXX999", 0, 4), Realisation("AAFA001", 0, 2)>>, 1, 0)}

\* birthdates: before and after the day of the first entry (2 january) in
\* the year, on that very day, and a few days before the entry
AggregateBirthdates ==
    {MkDate(1980, 3, 5), MkDate(1980, 1, 1), MkDate(1976, 1, 2), MkDate(2015, 12, 25)}

\* the stays: each one starts the day the one before ends, the patient is
\* transferred from one to the next, procedures are made on the entry day
AggregateStays(kinds, birthdate) ==
    [k \in 1..Len(kinds) |->
        [BaseStay EXCEPT
            !.stay_id = k,
            !.birthdate = birthdate,
            !.main_diagnosis = kinds[k].main_diagnosis,
            !.linked_diagnosis = kinds[k].linked_diagnosis,
            !.diagnoses = kinds[k].diagnoses,
            !.igs2 = kinds[k].igs2,
            !.entry = [date |-> Jan16(2 + NightsBefore(kinds, k)),
                       mode |-> IF k = 1 THEN "8" ELSE "6",
                       origin |-> IF k = 1 THEN "" ELSE "1"],
            !.exit = [date |-> Jan16(2 + NightsBefore(kinds, k + 1)),
                      mode |-> IF k = Len(kinds) THEN "8" ELSE "6",
                      destination |-> IF k = Len(kinds) THEN "" ELSE "1"],
            !.procedures =
                [j \in 1..Len(kinds[k].procedures) |->
                    [proc |-> kinds[k].procedures[j].proc,
                     phase |-> kinds[k].procedures[j].phase,
                     activities |-> kinds[k].procedures[j].activities,
                     count |-> 1,
                     date |-> Jan16(2 + NightsBefore(kinds, k))]]]]

InitAggregate ==
    /\ \E kinds \in SeqsUpTo(AggregateKinds, MaxAggregateStays),
          birthdate \in AggregateBirthdates :
          ac = [pc |-> "call", kinds |-> kinds,
                stays |-> AggregateStays(kinds, birthdate)]
    /\ IdleCluster /\ IdleErr /\ IdleAgg /\ IdleBatch /\ IdleClassify
    /\ IdlePrice /\ IdleSummary /\ IdleMainStay /\ IdleResolve

\* result.ghm = Aggregate(table_set, result.stays, &agg, &diagnoses,
\*                        &procedures, &errors)
AggregateCall ==
    /\ ac.pc = "call"
    /\ LET r == Aggregate(TheTableSet, ac.stays, UninitAggregate, <<>>, <<>>,
                          EmptyErrorSet)
       IN ac' = [pc |-> "done", kinds |-> ac.kinds, stays |-> ac.stays,
                 ghm |-> r.ghm, agg |-> r.agg, diagnoses |-> r.diagnoses,
                 procedures |-> r.procedures, errors |-> r.errors,
                 raised |-> r.raised, steps |-> r.steps]
    /\ UNCHANGED <<clusterVars, errVars, aggVars, batchVars, classifyVars, pg, sm, ms, rs>>

NextAggregate == AggregateCall
SpecAggregate == InitAggregate /\ [][NextAggregate]_vars

(***************************************************************************)
(* Specification of the entry checks of CheckMainErrors: one call of       *)
(* Aggregate on a cluster whose last stay has any entry mode and origin    *)
(***************************************************************************)
EntryModes == {"", "0", "6", "7", "8", "9"}
EntryOrigins == {"", "1", "2", "3", "4", "5", "6", "7", "R", "9"}
EntryMasks == {{}, {"MalformedEntryMode"}, {"MalformedEntryOrigin"}}

\* a stay alone, or the stay that follows a transfer
EntryClusters ==
    {<<[BaseStay EXCEPT !.entry.mode = mode, !.entry.origin = origin,
                        !.error_mask = error_mask]>> :
        mode \in EntryModes, origin \in EntryOrigins, error_mask \in EntryMasks}
    \cup {<<FirstStay, [SecondStay EXCEPT !.entry.mode = mode, !.entry.origin = origin]>> :
            mode \in EntryModes, origin \in EntryOrigins}

InitEntry ==
    /\ \E stays \in EntryClusters : ac = [pc |-> "call", kinds |-> <<>>, stays |-> stays]
    /\ IdleCluster /\ IdleErr /\ IdleAgg /\ IdleBatch /\ IdleClassify
    /\ IdlePrice /\ IdleSummary /\ IdleMainStay /\ IdleResolve

SpecEntry == InitEntry /\ [][NextAggregate]_vars

(***************************************************************************)
(* The switch of CountSupplements on the function of the unit (lines       *)
(* 1447-1536), stay after stay: the first stay of one cluster after the    *)
(* other, and the (counter, priority) pairs the switch has resolved stays  *)
(* to so far                                                               *)
(***************************************************************************)
\* what a stay is: its unit (types 1 to 6 and 13 have a supplement
\* function, type 7 has none), its IGS2 score and its procedures (none, or
\* a reanimation procedure). The score is 20, and 0 with a reanimation
\* procedure in a unit of type 1 and without one in a unit of type 3
ReanimationProcedure ==
    [proc |-> "KKFA010", phase |-> 0, activities |-> 2, count |-> 1,
     date |-> Jan16(10)]
ResolveKinds ==
    {[unit |-> unit, igs2 |-> 20, procedures |-> procedures] :
        unit \in {10001, 10002, 10003, 10004, 10005, 10006, 10013},
        procedures \in {<<>>, <<ReanimationProcedure>>}}
    \cup {[unit |-> 10001, igs2 |-> 0, procedures |-> <<ReanimationProcedure>>],
          [unit |-> 10003, igs2 |-> 0, procedures |-> <<>>],
          [unit |-> 10007, igs2 |-> 20, procedures |-> <<>>]}

\* patients: an adult, a child of nine and a baby of sixteen days, whose
\* weight the stay has to give
ResolvePatients ==
    {[birthdate |-> MkDate(1980, 3, 5), newborn_weight |-> 0],
     [birthdate |-> MkDate(2006, 3, 5), newborn_weight |-> 0],
     [birthdate |-> MkDate(2015, 12, 25), newborn_weight |-> 3200]}

\* the GHS of the cluster: an ordinary one, and 5903
ResolveGhs == {1901, 5903}

\* a cluster of one stay of two nights
ResolveStays(kind, patient) ==
    <<[BaseStay EXCEPT !.birthdate = patient.birthdate,
                       !.newborn_weight = patient.newborn_weight, !.unit = kind.unit,
                       !.igs2 = kind.igs2, !.procedures = kind.procedures,
                       !.exit.date = Jan16(12)]>>

InitResolve ==
    /\ rs = [pc |-> "run", seen |-> {}]
    /\ IdleCluster /\ IdleErr /\ IdleAgg /\ IdleBatch /\ IdleClassify
    /\ IdlePrice /\ IdleSummary /\ IdleMainStay /\ IdleAggregate

\* lines 1447-1536 for the first stay of a cluster Aggregate accepts: the
\* authorization of the unit, then the switch; a stay without counter
\* leaves nothing
ResolveCall ==
    /\ rs.pc = "run"
    /\ \E kind \in ResolveKinds, patient \in ResolvePatients, ghs \in ResolveGhs :
          \E aggregate \in {SupplementAggregate(ResolveStays(kind, patient))} :
          LET agg == aggregate.agg
              auth_info == FindAuthorization(agg.index, "Unit",
                              GetAuthorizationType(TheAuthorizationSet,
                                                   agg.stays[1].unit,
                                                   agg.stays[1].exit.date))
              r == IF auth_info = 0 THEN Unresolved
                   ELSE ResolveSupplement(agg, 1,
                            agg.index.authorizations[auth_info].function, ghs,
                            Igs2SrcAdjust(agg.age),
                            SupplementInit(agg, NoSupplements).prev_reanimation)
          IN /\ aggregate.ghm = NoGhm
             /\ rs' = [rs EXCEPT !.seen =
                          IF r.counter = "" THEN @
                          ELSE @ \cup {[counter |-> r.counter,
                                        priority |-> r.priority]}]
    /\ UNCHANGED <<clusterVars, errVars, aggVars, batchVars, classifyVars, pg, sm, ms, ac>>

NextResolve == ResolveCall
SpecResolve == InitResolve /\ [][NextResolve]_vars

(***************************************************************************)
(* Claims about clustering                                                 *)
(***************************************************************************)
Last(s) == s[Len(s)]

\* C3: the clusters returned by repeated Cluster calls each hold at least
\* one stay, their concatenation followed by the remainder is the input
\* sequence (so it is exactly the input once the remainder is empty), and
\* no more calls are made than the input has stays.
C3_ClustersPartitionInput ==
    /\ \A i \in 1..Len(cl_clusters) : Len(cl_clusters[i]) >= 1
    /\ Concat(cl_clusters) \o cl_stays = cl_input
    /\ Len(cl_clusters) <= Len(cl_input)

C3_Witness ==
    /\ cl_stays = <<>>
    /\ Len(cl_input) = 3
    /\ Len(cl_clusters) = 2
    /\ Len(cl_clusters[1]) = 2

\* C4: inside every returned cluster each adjacent pair of stays is
\* compatible under the mode, and the stay that follows a cluster (the first
\* stay of the remainder it left) is not compatible with its last stay.
C4_LongestCompatiblePrefix ==
    \A i \in 1..Len(cl_clusters) :
        LET c == cl_clusters[i]
            rest == Concat(SubSeq(cl_clusters, i + 1, Len(cl_clusters))) \o cl_stays
        IN /\ \A j \in 1..(Len(c) - 1) : AreStaysCompatible(c[j], c[j + 1], cl_mode)
           /\ rest # <<>> => ~AreStaysCompatible(Last(c), rest[1], cl_mode)

C4_Witness ==
    /\ cl_mode = "StayModes"
    /\ Len(cl_clusters) = 1
    /\ Len(cl_clusters[1]) = 2
    /\ Len(cl_stays) = 1

\* C5: in Disable mode every cluster has length exactly 1, and once the
\* input is exhausted there are as many clusters as stays.
C5_DisableYieldsSingletons ==
    cl_mode = "Disable" =>
        /\ \A i \in 1..Len(cl_clusters) : Len(cl_clusters[i]) = 1
        /\ cl_stays = <<>> => Len(cl_clusters) = Len(cl_input)

C5_Witness ==
    /\ cl_mode = "Disable"
    /\ cl_stays = <<>>
    /\ Len(cl_input) = 3
    /\ cl_input[1] = cl_input[2]
    /\ cl_input[2].entry.mode = "6"
    /\ cl_input[2].session_count = 0

\* C6: in StayModes mode stay i+1 continues stay i exactly when stay i has
\* session count 0 and stay i+1 has the same stay id, session count 0 and
\* entry mode '6' or '0'; so in every multi-stay cluster all stays share one
\* stay id, all have session count 0 and every stay after the first has
\* entry mode '6' or '0'.
C6_StayModesCompatibility ==
    /\ \A i \in 1..(Len(cl_input) - 1) :
          AreStaysCompatible(cl_input[i], cl_input[i + 1], "StayModes")
            <=> /\ cl_input[i].session_count = 0
                /\ cl_input[i + 1].stay_id = cl_input[i].stay_id
                /\ cl_input[i + 1].session_count = 0
                /\ cl_input[i + 1].entry.mode \in {"6", "0"}
    /\ cl_mode = "StayModes" =>
          \A i \in 1..Len(cl_clusters) :
              LET c == cl_clusters[i]
              IN Len(c) > 1 =>
                    /\ \A j \in 1..Len(c) : c[j].stay_id = c[1].stay_id
                    /\ \A j \in 1..Len(c) : c[j].session_count = 0
                    /\ \A j \in 2..Len(c) : c[j].entry.mode \in {"6", "0"}

C6_Witness ==
    /\ cl_mode = "StayModes"
    /\ cl_stays = <<>>
    /\ Len(cl_clusters) = 2
    /\ Len(cl_clusters[1]) = 2
    /\ cl_clusters[2][1].stay_id = cl_clusters[1][1].stay_id
    /\ cl_clusters[2][1].session_count = 1

(***************************************************************************)
(* Claims about the error set                                              *)
(***************************************************************************)
\* the (error, priority) pairs recorded so far (error 0 records nothing)
Recorded == {es_calls[i] : i \in {j \in 1..Len(es_calls) : es_calls[j][1] # 0}}
TopPriority == CHOOSE p \in {c[2] : c \in Recorded} :
                    \A c \in Recorded : c[2] <= p

\* C7: after any sequence of SetError calls on an initially empty error
\* set, main_error is an error recorded with the highest priority seen so
\* far, and it is the numerically smallest code among the errors recorded
\* with that priority.
C7_MainErrorHasTopPriority ==
    Recorded # {} =>
        /\ \E c \in Recorded : c[1] = es.main_error /\ c[2] = TopPriority
        /\ \A c \in Recorded : c[2] = TopPriority => es.main_error <= c[1]

(***************************************************************************)
(* Claims about Aggregate                                                  *)
(***************************************************************************)
LastExitDate == Last(ag_last.stays).exit.date
PassesMainChecks == AllValid(CheckMainErrors(ag_last.stays))
BlockingErrors(raised) == {raised[i].error : i \in {j \in 1..Len(raised) : raised[j].blocking}}

\* C8: when CheckMainErrors raises a blocking error for a cluster, Aggregate
\* returns 90Z00Z at once (no table lookup, no collection of diagnoses or
\* procedures, no main-stay selection), the blocking errors are in the error
\* bitset, and main_error is non-zero and one of the errors raised for this
\* cluster.
C8_BlockingMainErrorAborts ==
    (ag_count > 0 /\ ~PassesMainChecks) =>
        /\ ag_last.ghm = Ghm90Z00Z
        /\ ag_last.steps = <<"CheckMainErrors">>
        /\ BlockingErrors(CheckMainErrors(ag_last.stays)) \subseteq ag_errors.errors
        /\ ag_errors.main_error # 0
        /\ ag_errors.main_error \in ErrorsOf(CheckMainErrors(ag_last.stays))

C8_Witness ==
    /\ ag_count = 2
    /\ Len(ag_last.stays) = 2
    /\ ~PassesMainChecks
    /\ ag_last.ghm = Ghm90Z00Z
    /\ 27 \in ag_errors.errors
    /\ 502 \in ag_errors.errors

\* C9: when a cluster passes the structural checks and no table index is
\* valid for the exit date of its last stay, Aggregate returns 90Z03Z and
\* records error 502 with priority 2, and main_error is 502 whatever
\* advisory errors the checks recorded before.
C9_NoTableIndex ==
    (/\ ag_count > 0 /\ PassesMainChecks
     /\ FindIndex(TheTableSet, LastExitDate) = NullIndex) =>
        /\ ag_last.ghm = Ghm90Z03Z
        /\ 502 \in ag_errors.errors
        /\ Last(ag_last.raised) = [error |-> 502, priority |-> 2, blocking |-> FALSE]
        /\ ag_errors.main_error = 502
        /\ ag_errors.priority = 2

C9_Witness ==
    /\ ag_count > 0 /\ PassesMainChecks
    /\ FindIndex(TheTableSet, LastExitDate) = NullIndex
    /\ 66 \in ErrorsOf(ag_last.raised)
    /\ ag_errors.main_error = 502

\* C10: when a cluster passes the structural checks and has a table index,
\* and the main diagnosis of one of its stays is not in the diagnosis
\* dictionary, error 67 is recorded and the GHM is 90Z00Z, so that the
\* decision tree is not run; if 67 is the only error raised for the cluster,
\* main_error is 67.
C10_UnknownMainDiagnosis ==
    (/\ ag_count > 0 /\ PassesMainChecks
     /\ FindIndex(TheTableSet, LastExitDate) # NullIndex
     /\ \E i \in 1..Len(ag_last.stays) :
            FindDiagnosis(FindIndex(TheTableSet, LastExitDate),
                          ag_last.stays[i].main_diagnosis) = 0) =>
        /\ 67 \in ag_errors.errors
        /\ ag_last.ghm = Ghm90Z00Z
        /\ \A i \in 1..Len(ag_last.steps) : ag_last.steps[i] # "ClassifyGhm"
        /\ ErrorsOf(ag_last.raised) = {67} => ag_errors.main_error = 67

C10_Witness ==
    /\ ag_count = 2 /\ PassesMainChecks
    /\ Len(ag_last.stays) = 2
    /\ FindDiagnosis(TheIndex, ag_last.stays[1].main_diagnosis) # 0
    /\ FindDiagnosis(TheIndex, ag_last.stays[2].main_diagnosis) = 0
    /\ ErrorsOf(ag_last.raised) = {67}
    /\ ag_errors.main_error = 67
    /\ ag_errors.errors # {67}

(***************************************************************************)
(* Claims about Classify                                                   *)
(***************************************************************************)
\* the clusters that repeated Cluster calls cut stays into, in order
RECURSIVE Clusters(_, _)
Clusters(stays, cluster_mode) ==
    IF stays = <<>> THEN <<>>
    ELSE <<Cluster(stays, cluster_mode).cluster>>
         \o Clusters(Cluster(stays, cluster_mode).remainder, cluster_mode)

ClusterCount == Len(Clusters(b_stays, b_mode))
\* n_k: the clusters in the span of the k-th task (k from 1)
TaskClusterCount(k) ==
    Len(Clusters(Take(b_stays, b_tasks[k].task_start, b_tasks[k].task_len), b_mode))
\* the slots [old_len + TaskSize*(k-1), old_len + TaskSize*(k-1) + n_k),
\* as positions from 1
TaskSlots(k) ==
    {b_old_len + TaskSize * (k - 1) + n : n \in 1..TaskClusterCount(k)}

\* C1: in every state of a Classify call, whatever the interleaving of the
\* workers with each other and with the main thread: the k-th task starts
\* at old_len + TaskSize*k, every task but the last covers exactly TaskSize
\* clusters, the slot ranges of two tasks are disjoint, every slot was
\* written at most once and by the task whose range holds it, the entries
\* below old_len are as they were; once Sync has returned every slot of
\* [old_len, old_len + cluster_count) was written exactly once and the
\* length is old_len + cluster_count, and it is old_len before that.
C1_TasksWriteDisjointSlotsOnce ==
    LET slots == [k \in 1..Len(b_tasks) |-> TaskSlots(k)]
        written == {s \in 1..Len(b_out.slots) : b_out.slots[s].writers # <<>>}
    IN /\ \A k \in 1..Len(b_tasks) :
             /\ b_tasks[k].results_offset = b_old_len + TaskSize * (k - 1)
             /\ (k < Len(b_tasks) \/ b_main.pc = "scan")
                   => Cardinality(slots[k]) = TaskSize
             /\ \A j \in 1..(k - 1) : slots[j] \cap slots[k] = {}
       /\ \A s \in written :
             /\ Len(b_out.slots[s].writers) = 1
             /\ s \in slots[b_out.slots[s].writers[1]]
       /\ \A s \in 1..b_old_len : b_out.slots[s] = OldSlot
       /\ IF b_main.pc = "done"
          THEN /\ b_out.len = b_old_len + ClusterCount
               /\ written = (b_old_len + 1)..(b_old_len + ClusterCount)
          ELSE b_out.len = b_old_len

\* Sync has returned from two tasks that wrote after an old entry
C1_Witness ==
    /\ b_main.pc = "done"
    /\ Len(b_tasks) = 2
    /\ b_old_len = 1
    /\ ClusterCount > TaskSize
    /\ \A s \in 2..b_out.len : Len(b_out.slots[s].writers) = 1

\* C2: once Classify has returned and a sequential ClassifyRaw pass over
\* the same stays has ended, the results appended by Classify are those of
\* the pass, element for element: the same stays, GHM, GHS, main error,
\* duration, supplement days and prices.
C2_SameAsSequentialPass ==
    (b_main.pc = "done" /\ b_seq.pc = "run" /\ b_seq.stays = <<>>)
    => /\ Len(b_seq.results) = b_out.len - b_old_len
       /\ \A k \in 1..Len(b_seq.results) :
             b_out.slots[b_old_len + k].result = b_seq.results[k]

(***************************************************************************)
(* Claims about failed clusters                                            *)
(***************************************************************************)
\* whether Aggregate fails on the cluster: a blocking error of
\* CheckMainErrors, or no table index for the exit date of its last stay
ClusterFails(stays) ==
    \/ ~AllValid(CheckMainErrors(stays))
    \/ FindIndex(TheTableSet, stays[Len(stays)].exit.date) = NullIndex

\* C11: a cluster that fails in CheckMainErrors or for want of a table
\* index never makes a worker (or a sequential pass) fault on a read
\* through the aggregate's index that was never set, and its result holds
\* an error GHM, GHS 9999, no supplement day and the price 0; the clusters
\* after it in the task are classified.
C11_FailedClusterYieldsSentinel ==
    /\ b_main.pc # "crashed"
    /\ b_seq.pc # "crashed"
    /\ \A s \in 1..Len(b_out.slots) :
          (b_out.slots[s].writers # <<>> /\ ClusterFails(b_out.slots[s].result.stays))
          => /\ GhmIsError(b_out.slots[s].result.ghm)
             /\ b_out.slots[s].result.ghs = 9999
             /\ b_out.slots[s].result.supplement_days = NoSupplements
             /\ b_out.slots[s].result.price_cents = 0
    /\ b_main.pc = "done"
       => \A k \in 1..Len(b_tasks) : b_tasks[k].stays = <<>>

(***************************************************************************)
(* Claims about RunGhmTree                                                 *)
(***************************************************************************)
\* the node the call read last, and the value ExecuteGhmTest gives for the
\* node the call is at
LastVisited == tr_nodes[Last(tr.visited) + 1]
TestValueHere ==
    ExecuteGhmTest(tr.ctx, TreeAgg(tr_nodes), tr_nodes[tr.ghm_node_idx + 1]).ret
AtTestNode ==
    /\ tr.pc = "loop"
    /\ tr.i < Len(tr_nodes)
    /\ tr.ghm_node_idx \in 0..(Len(tr_nodes) - 1)
    /\ tr_nodes[tr.ghm_node_idx + 1].type = "Test"

\* the outcomes of a call that returned
ReturnsTerminalGhm ==
    /\ tr.visited # <<>>
    /\ LastVisited.type = "Ghm"
    /\ GhmIsValid(LastVisited.ghm)
    /\ tr.ghm = LastVisited.ghm
ReturnsInternalError ==
    /\ tr.ghm = Ghm90Z03Z
    /\ 4 \in ErrorsOf(tr.raised)
ReturnsRefusedGhm ==
    /\ tr.visited # <<>>
    /\ LastVisited.type = "Ghm"
    /\ GhmIsValid(LastVisited.ghm)
    /\ ~AllValid(CheckGhmErrors(TreeAgg(tr_nodes), LastVisited.ghm))
    /\ tr.ghm = Ghm90Z00Z

\* C12: for any node array (an empty one and one whose child ranges form a
\* cycle included) RunGhmTree reads at most node_count nodes and then stops,
\* and it returns either the GHM of the terminal node it reached or 90Z03Z
\* with error 4 recorded: there is no third outcome
C12_TerminalGhmOrInternalError ==
    /\ Len(tr.visited) <= Len(tr_nodes)
    /\ tr.i <= Len(tr_nodes)
    /\ tr.pc # "aborted"
    /\ tr.pc = "done" => ReturnsTerminalGhm \/ ReturnsInternalError

\* C12, amended: for any node array (an empty one and a cyclic one included)
\* RunGhmTree reads at most node_count nodes and then stops: it returns the
\* GHM of the terminal node it reached, or 90Z00Z when CheckGhmErrors refuses
\* that GHM, or 90Z03Z with error 4 recorded, and it is aborted by its Assert
\* only when a test sent it to a child outside the array; the call agrees
\* with RunGhmTree taken whole
C12_TerminalRefusedOrInternalError ==
    /\ Len(tr.visited) <= Len(tr_nodes)
    /\ tr.i <= Len(tr_nodes)
    /\ tr.pc = "aborted"
       => /\ tr.visited # <<>>
          /\ tr.ghm_node_idx >= Len(tr_nodes)
          /\ LastVisited.type = "Test"
          /\ LastVisited.children_idx + LastVisited.children_count > Len(tr_nodes)
          /\ RunGhmTree(TreeAgg(tr_nodes)) = TreeResult(NoGhm, tr.raised, TRUE)
    /\ tr.pc = "done"
       => /\ ReturnsTerminalGhm \/ ReturnsRefusedGhm \/ ReturnsInternalError
          /\ RunGhmTree(TreeAgg(tr_nodes)) = TreeResult(tr.ghm, tr.raised, FALSE)

\* a call on a cyclic array that came back to a node and was stopped by the
\* bound, and a call whose terminal GHM was refused
C12_Witness ==
    /\ tr.pc = "done"
    /\ Len(tr.visited) = Len(tr_nodes)
    /\ \E a, b \in 1..Len(tr.visited) : a < b /\ tr.visited[a] = tr.visited[b]
    /\ LastVisited.type = "Test"
    /\ ReturnsInternalError
C12_RefusedWitness == tr.pc = "done" /\ ReturnsRefusedGhm

\* C13: when the function of a Test node gives a value outside
\* [0, children_count), -1 of an unknown function included, RunGhmTree stops
\* at once: it returns 90Z03Z, its last SetError call is (4, priority 2),
\* main_error is 4, and no node is read after that Test node
C13_OutOfRangeStopsAtOnce ==
    [][/\ (AtTestNode /\ (TestValueHere < 0
                          \/ TestValueHere >= tr_nodes[tr.ghm_node_idx + 1].children_count))
          => /\ tr'.pc = "done"
             /\ tr'.ghm = Ghm90Z03Z
             /\ Last(tr'.raised) = [error |-> 4, priority |-> 2, blocking |-> FALSE]
             /\ ApplyErrors(EmptyErrorSet, tr'.raised).main_error = 4
             /\ tr'.visited = Append(tr.visited, tr.ghm_node_idx)
       /\ tr.pc = "done" => tr' = tr]_vars

\* a call stopped by the value -1 of an unknown function after function 28
\* had recorded error 2, and one stopped by a value past the children
C13_Witness ==
    /\ tr.pc = "done"
    /\ tr.visited # <<>>
    /\ LastVisited.type = "Test"
    /\ LastVisited.function = 99
    /\ 2 \in ErrorsOf(tr.raised)
    /\ ApplyErrors(EmptyErrorSet, tr.raised).main_error = 4
C13_PastChildrenWitness ==
    /\ tr.pc = "done"
    /\ tr.visited # <<>>
    /\ LastVisited = TestNode(3, 30, 0, 0, 1)
    /\ tr.ghm = Ghm90Z03Z

(***************************************************************************)
(* Claims about RunGhmSeverity                                             *)
(***************************************************************************)
\* a call that returned for a GHM whose root the table holds
SeverityReturned == sv.pc = "done" /\ GhmRoot(sv.ghm) = sv.ghm_root_info.ghm_root

C15_ChildbirthWitness ==
    /\ SeverityReturned
    /\ ~sv.ghm_root_info.allow_ambulatory
    /\ sv.ghm_root_info.short_duration_treshold = 2
    /\ sv.duration = 0
    /\ sv.ghm.mode = "C"
    /\ sv.out.ghm.mode = "T"

\* the level of a severity mode: '1'..'4' and 'A'..'D' are levels 0..3
ModeLevels == [m \in {"1", "A"} |-> 0] @@ [m \in {"2", "B"} |-> 1]
              @@ [m \in {"3", "C"} |-> 2] @@ [m \in {"4", "D"} |-> 3]

C16_LevelWitness ==
    /\ SeverityReturned
    /\ sv.out.ghm.mode = "3"
    /\ sv.duration = 4

(***************************************************************************)
(* Claims about ClassifyGhs                                                *)
(***************************************************************************)
\* the GHM the rules are looked up with (the one ClassifyGhm gives the
\* aggregate with duration 0 when every stay is in a UHCD unit), and the
\* positions of the rules of that GHM that TestGhs accepts
GhsAgg == GhsAggregate(gh.stays, gh.rules)
GhsLookup ==
    IF IsUhcdOnly(GhsAgg, TheAuthorizationSet)
    THEN ClassifyGhm([GhsAgg EXCEPT !.duration = 0]).ghm
    ELSE gh.ghm
GhsMatches ==
    {k \in 1..Len(gh.rules) : /\ gh.rules[k].ghm = GhsLookup
                              /\ TestGhs(GhsAgg, TheAuthorizationSet, gh.rules[k])}

C17_SkippedWitness ==
    /\ gh.pc = "done"
    /\ GhsMatches = {2}
    /\ gh.rules[1].ghm = gh.ghm
    /\ gh.out = 1902
C17_UhcdWitness ==
    /\ gh.pc = "done"
    /\ GhsLookup # gh.ghm
    /\ GhmIsValid(gh.ghm) /\ ~GhmIsError(gh.ghm)
    /\ gh.out # 9999
C17_ErrorWitness == gh.pc = "done" /\ GhmIsError(gh.ghm) /\ Len(gh.rules) = 2

(***************************************************************************)
(* Claims about CountSupplements                                           *)
(***************************************************************************)
\* the category the switch of CountSupplements resolves a stay of the
\* cluster to (lines 1486-1507 for the units drawn): its counter and its
\* priority, or no counter
NoCategory == [counter |-> "", priority |-> 0]
Category(kind) ==
    CASE kind.unit = 10001 -> [counter |-> "reasi", priority |-> 5]
      [] kind.unit = 10002 -> [counter |-> "si", priority |-> 4]
      [] kind.unit = 10003 /\ kind.igs2 >= 15 -> [counter |-> "src", priority |-> 2]
      [] OTHER -> NoCategory

\* C18: CountSupplements called with GHS 9999 leaves every counter as it
\* was, whatever the stays of the aggregate and the tables are, and PriceGhs
\* gives 0: a result whose GHS is 9999 has no supplement day and a GHS price
\* of 0
C18_SentinelGhsCountsNothing ==
    (su.pc = "done" /\ su.ghs = 9999)
    => /\ su.out.counters = su.counters
       /\ ~su.out.fault
       /\ su.ghs_price_cents = 0
       /\ su.counters = NoSupplements => su.out.counters = NoSupplements

\* a call with GHS 9999 and counters already counted in, on a cluster whose
\* stays would have counted with another GHS
C18_Witness ==
    /\ su.pc = "done"
    /\ su.ghs = 9999
    /\ su.counters # NoSupplements
    /\ \E k \in 1..Len(su.kinds) : su.kinds[k].unit = 10001 /\ su.kinds[k].nights = 2
    /\ \E k \in 1..Len(su.kinds) : su.kinds[k].nights = 0

\* C19: in a cluster of two stays, the first without a night and of a
\* category of priority P1, the second with nights and of a category of
\* priority P2 < P1, one day goes to the category of the first stay and the
\* category of the second gets (exit - entry) + (1 if the patient died) - 1
\* days: the ambulatory day never goes to the second stay's counter
C19_AmbulatoryDayGoesToFirstStay ==
    (/\ su.pc = "done" /\ su.ghs # 9999
     /\ Len(su.kinds) = 2
     /\ su.kinds[1].nights = 0 /\ su.kinds[2].nights > 0
     /\ Category(su.kinds[2]).priority >= 1
     /\ Category(su.kinds[2]).priority < Category(su.kinds[1]).priority)
    => /\ ~su.out.fault
       /\ su.out.counters =
             [su.counters EXCEPT
                 ![Category(su.kinds[1]).counter] = @ + 1,
                 ![Category(su.kinds[2]).counter] =
                     @ + DateDiff(su.stays[2].exit.date, su.stays[2].entry.date)
                       + BoolInt(su.died) - 1]

\* a day without a night in a unit of type 1, then two nights in a unit of
\* type 2 where the patient died: one day of reasi, two days of si
C19_Witness ==
    /\ su.pc = "done" /\ su.ghs # 9999
    /\ Len(su.kinds) = 2
    /\ su.kinds[1] = [unit |-> 10001, nights |-> 0, igs2 |-> 0]
    /\ su.kinds[2] = [unit |-> 10002, nights |-> 2, igs2 |-> 0]
    /\ su.died
    /\ su.out.counters = [NoSupplements EXCEPT !["reasi"] = 1, !["si"] = 2]

\* the days the stays from position k on add when every pending run of
\* stays without a night gives one day to its highest category (top) once a
\* stay with nights or the end of the cluster is reached, and a stay with
\* nights gives its days to its own category, less the day a pending run of
\* higher or equal priority took
RunFlushed(top, days) ==
    IF top.counter = "" THEN days ELSE [days EXCEPT ![top.counter] = @ + 1]
RunJoined(top, category) ==
    IF category.priority > top.priority THEN category ELSE top
OwnDays(top, category, nights, days) ==
    IF category.counter = "" THEN days
    ELSE [days EXCEPT ![category.counter] =
            @ + (IF top.counter # "" /\ top.priority >= category.priority
                 THEN nights - 1 ELSE nights)]
RECURSIVE RunDays(_, _, _, _, _)
RunDays(kinds, died, k, top, days) ==
    IF k > Len(kinds) THEN RunFlushed(top, days)
    ELSE IF kinds[k].nights = 0
    THEN RunDays(kinds, died, k + 1, RunJoined(top, Category(kinds[k])), days)
    ELSE RunDays(kinds, died, k + 1, NoCategory,
                 OwnDays(top, Category(kinds[k]),
                         kinds[k].nights + BoolInt(died /\ k = Len(kinds)),
                         RunFlushed(top, days)))

\* C20: every pending ambulatory run (stays without a night in a row, one of
\* them at least with a category) adds exactly one day to the counter of the
\* highest category seen in the run, whether a stay with nights (of any
\* priority) or the end of the cluster ends it; no pending run is dropped
C20_EveryRunAddsItsDay ==
    (su.pc = "done" /\ su.ghs # 9999)
    => /\ ~su.out.fault
       /\ su.out.counters = RunDays(su.kinds, su.died, 1, NoCategory, su.counters)

\* the run CountSupplements drops: a day without a night in a unit of type 2
\* (si), then two nights in a unit of type 1 (reasi), and no day of si
C20_DroppedRun ==
    /\ su.pc = "done" /\ su.ghs # 9999
    /\ Len(su.kinds) = 2
    /\ su.kinds[1] = [unit |-> 10002, nights |-> 0, igs2 |-> 0]
    /\ su.kinds[2] = [unit |-> 10001, nights |-> 2, igs2 |-> 0]
    /\ ~su.died
    /\ su.out.counters = [NoSupplements EXCEPT !["reasi"] = 2]

(***************************************************************************)
(* Claims about PriceGhs                                                   *)
(***************************************************************************)
PriceReturned == pg.pc = "done"
PriceDied == IF PriceReturned /\ pg.death THEN 1 ELSE 0

\* C21 as stated: PriceGhs returns exactly the base price whenever duration
\* equals exb_treshold and whenever duration equals exh_treshold, for every
\* price info, whether the patient died or not.
C21_BoundaryGivesBasePrice ==
    (/\ PriceReturned
     /\ \/ pg.duration = pg.price_info.exb_treshold
        \/ pg.duration = pg.price_info.exh_treshold)
    => pg.out = pg.price_info.price_cents

\* C21 amended: PriceGhs returns exactly the base price when duration equals
\* exb_treshold and duration + died does not exceed exh_treshold, and when
\* duration equals exh_treshold, exh_treshold is not below exb_treshold and
\* the patient did not die; when duration equals exh_treshold and the patient
\* died, it returns the base price plus exh_cents (one day of surcharge).
C21_BoundaryGivesBasePriceUnlessPastExh ==
    PriceReturned =>
        /\ (/\ pg.duration = pg.price_info.exb_treshold
            /\ pg.duration + PriceDied <= pg.price_info.exh_treshold)
           => pg.out = pg.price_info.price_cents
        /\ (/\ pg.duration = pg.price_info.exh_treshold
            /\ pg.price_info.exb_treshold <= pg.price_info.exh_treshold
            /\ ~pg.death)
           => pg.out = pg.price_info.price_cents
        /\ (pg.duration = pg.price_info.exh_treshold /\ pg.death)
           => pg.out = pg.price_info.price_cents + pg.price_info.exh_cents

\* a stay of exactly exb_treshold days, below exh_treshold, under a price info
\* that has a rebate and a surcharge: the base price
C21_Witness ==
    /\ PriceReturned
    /\ pg.duration = pg.price_info.exb_treshold
    /\ pg.duration > 0
    /\ pg.duration < pg.price_info.exh_treshold
    /\ pg.price_info.exb_cents > 0
    /\ pg.price_info.exh_cents > 0
    /\ ~pg.death
    /\ pg.out = pg.price_info.price_cents

\* a patient who died after exactly exh_treshold days: one day of surcharge
C21_DeathWitness ==
    /\ PriceReturned
    /\ pg.duration = pg.price_info.exh_treshold
    /\ pg.price_info.exb_treshold < pg.price_info.exh_treshold
    /\ pg.price_info.exh_cents > 0
    /\ pg.death
    /\ pg.out = pg.price_info.price_cents + pg.price_info.exh_cents

\* the rebate and the surcharge of the statement of C22
PriceRebate ==
    IF pg.duration < pg.price_info.exb_treshold /\ ~pg.death
    THEN (IF pg.price_info.flags % 2 = 1
          THEN pg.price_info.exb_cents
          ELSE pg.price_info.exb_cents * (pg.price_info.exb_treshold - pg.duration))
    ELSE 0
PriceSurcharge ==
    IF /\ ~(pg.duration < pg.price_info.exb_treshold /\ ~pg.death)
       /\ pg.duration + PriceDied > pg.price_info.exh_treshold
    THEN pg.price_info.exh_cents * (pg.duration + PriceDied - pg.price_info.exh_treshold)
    ELSE 0

\* C22: PriceGhs is the base price, minus exb_cents (once when ExbOnce is set,
\* else per day below exb_treshold) when duration < exb_treshold and the
\* patient did not die, else plus exh_cents per day of duration + died above
\* exh_treshold; a rebate and a surcharge are never both applied and a
\* patient who died gets no rebate.
C22_PriceIsBaseRebateOrSurcharge ==
    PriceReturned =>
        /\ pg.out = pg.price_info.price_cents - PriceRebate + PriceSurcharge
        /\ PriceRebate = 0 \/ PriceSurcharge = 0
        /\ pg.out < pg.price_info.price_cents => ~pg.death
        /\ pg.out < pg.price_info.price_cents
           => pg.duration < pg.price_info.exb_treshold
        /\ pg.out > pg.price_info.price_cents
           => pg.duration + PriceDied > pg.price_info.exh_treshold

\* the scenario of the per-day rebate: two days below the treshold
C22_Witness ==
    /\ PriceReturned
    /\ pg.price_info.exb_treshold = 3
    /\ pg.price_info.exb_cents = 500
    /\ pg.price_info.flags % 2 = 0
    /\ pg.duration = 1
    /\ ~pg.death
    /\ pg.out = pg.price_info.price_cents - 1000

\* a patient who died below exb_treshold and above exh_treshold: surcharge only
C22_DeathWitness ==
    /\ PriceReturned
    /\ pg.death
    /\ pg.duration < pg.price_info.exb_treshold
    /\ pg.price_info.exb_cents > 0
    /\ pg.duration + 1 > pg.price_info.exh_treshold
    /\ pg.price_info.exh_cents > 0
    /\ pg.out > pg.price_info.price_cents

(***************************************************************************)
(* Claims about the results of ClassifyRaw                                 *)
(***************************************************************************)
\* every ClassifyResult written so far, by a worker or by the sequential pass
WrittenResults ==
    {b_out.slots[s].result :
        s \in {t \in 1..Len(b_out.slots) : b_out.slots[t].writers # <<>>}}
    \cup {b_seq.results[k] : k \in 1..Len(b_seq.results)}

\* C23: two classifications of the same cluster with the same tables and
\* authorizations give identical results (stays, duration, GHM, GHS, main
\* error, supplement days, prices), whichever worker made them, whatever it
\* classified before and wherever the cluster falls in its chunk, clusters
\* that end with a sentinel GHM included.
C23_SameClusterSameResult ==
    \A r1, r2 \in WrittenResults : r1.stays = r2.stays => r1 = r2

\* C24: when ClassifyRaw starts on a cluster, after the statements that
\* reset the reused state, the diagnosis list and the procedure list are
\* empty and the error set has main_error 0, priority 0 and no bit set, so
\* nothing a previous cluster recorded is there while the next is classified.
C24_ScratchEmptyAtClusterStart ==
    ag_count > 0 => ag_last.scratch = Scratch(EmptyErrorSet, <<>>, <<>>)

(***************************************************************************)
(* Claims about Summarize                                                  *)
(***************************************************************************)
\* the results of the parts summarized so far, as positions in sm.results
SummarizedResults ==
    {i \in 1..Len(sm.results) :
        \E k \in sm.summarized :
            /\ i > SumLens(SubSeq(sm.lens, 1, k - 1))
            /\ i <= SumLens(SubSeq(sm.lens, 1, k))}

RECURSIVE SumOver(_, _)
SumOver(f, S) ==
    IF S = {} THEN 0
    ELSE LET x == CHOOSE y \in S : TRUE IN f[x] + SumOver(f, S \ {x})

\* C25: the summary is at every moment the summary handed in plus, for the
\* results summarized so far, their number, their numbers of stays, their GHS
\* prices, their supplement days and cents (type by type) and their total
\* prices; so once every part was summarized, in whatever order and however
\* the sequence was cut, the summary is the one a single call over the whole
\* sequence gives, and stays_count has grown by the number of input stays.
C25_SummarizeAddsElementwise ==
    sm.pc = "call" =>
        LET R == SummarizedResults
            res == sm.results
        IN /\ sm.summary.results_count = sm.start.results_count + Cardinality(R)
           /\ sm.summary.stays_count
              = sm.start.stays_count + SumOver([i \in R |-> Len(res[i].stays)], R)
           /\ sm.summary.ghs_total_cents
              = sm.start.ghs_total_cents + SumOver([i \in R |-> res[i].ghs_price_cents], R)
           /\ sm.summary.total_cents
              = sm.start.total_cents + SumOver([i \in R |-> res[i].price_cents], R)
           /\ \A t \in SupplementTypes :
                 /\ sm.summary.supplement_days[t]
                    = sm.start.supplement_days[t]
                      + SumOver([i \in R |-> res[i].supplement_days[t]], R)
                 /\ sm.summary.supplement_cents[t]
                    = sm.start.supplement_cents[t]
                      + SumOver([i \in R |-> res[i].supplement_cents[t]], R)
           /\ sm.summarized = 1..Len(sm.lens)
              => /\ sm.summary = Summarize(res, sm.start)
                 /\ sm.summary.stays_count
                    = sm.start.stays_count
                      + Len(Concat([i \in 1..Len(res) |-> res[i].stays]))

\* three results cut into three parts, the last part summarized first, all
\* of them summarized
C25_Witness ==
    /\ sm.pc = "call"
    /\ Len(sm.results) = 3
    /\ sm.lens = <<1, 1, 1>>
    /\ sm.summarized = {1, 2, 3}
    /\ sm.results[1] # sm.results[3]
    /\ sm.summary.stays_count > sm.summary.results_count
    /\ sm.summary.supplement_days["si"] > 0

\* a part summarized out of order: the last one before the first one
C25_OrderWitness ==
    /\ sm.pc = "call"
    /\ sm.lens = <<1, 2>>
    /\ sm.summarized = {2}
    /\ sm.summary # sm.start

(***************************************************************************)
(* Claims about FindMainStay                                               *)
(***************************************************************************)
MainStayReturned == ms.pc = "done"
MainStayPositions == IF ms = NoCall THEN {} ELSE 1..Len(ms.kinds)
MainStayNights(i) == ms.kinds[i].nights
MainStayTotalNights == NightsBefore(ms.kinds, Len(ms.kinds) + 1)
MainStayDiagnosisBit(i, value) ==
    TestDiagnosisOf(TheIndex, ms.stays[i].sex, ms.kinds[i].main_diagnosis, 21, value)

\* a procedure of the cluster ends the selection at once
MainStayShortCircuit == \E i \in MainStayPositions : ms.kinds[i].proc = "BBFA002"

\* the stays with a main diagnosis Z515, Z502 or Z503
ZxStays ==
    {i \in MainStayPositions :
        \E prefix \in {"Z515", "Z502", "Z503"} :
            Matches(ms.kinds[i].main_diagnosis, prefix)}

\* the first of the longest stays among S (0 when S is empty)
FirstLongest(S) ==
    IF S = {} THEN 0
    ELSE CHOOSE i \in S :
            /\ \A j \in S : MainStayNights(j) <= MainStayNights(i)
            /\ \A j \in S : MainStayNights(j) = MainStayNights(i) => i <= j

\* the last stay of the unbroken leading streak of trauma stays (0: none)
TraumaStreakLast ==
    LET streak == {k \in MainStayPositions : \A j \in 1..k : MainStayDiagnosisBit(j, 4)}
    IN IF streak = {} THEN 0 ELSE CHOOSE k \in streak : \A j \in streak : j <= k

\* the score of a stay: 100 for each earlier stay of two nights and more
\* without the bit 0x20, what its procedure takes off, and its own bumps
MainStayScore(i) ==
    100 * Cardinality({j \in 1..(i - 1) :
                          ~MainStayDiagnosisBit(j, 32) /\ MainStayNights(j) >= 2})
    - (IF ms.kinds[i].proc = "FFFA006" THEN 999999
       ELSE IF ms.kinds[i].proc = "GGFA007" /\ MainStayTotalNights <= 1 THEN 99999
       ELSE IF ms.kinds[i].proc = "HHFA008" /\ MainStayTotalNights = 0 THEN 9999
       ELSE 0)
    + (IF MainStayDiagnosisBit(i, 32) THEN 150 ELSE 0)
    + (IF MainStayNights(i) = 0 THEN 2 ELSE IF MainStayNights(i) = 1 THEN 1 ELSE 0)
    + (IF MainStayDiagnosisBit(i, 2) THEN 201 ELSE 0)

\* the first of the stays with the lowest score
LowestScoreStay ==
    CHOOSE i \in MainStayPositions :
        /\ \A j \in MainStayPositions : MainStayScore(i) <= MainStayScore(j)
        /\ \A j \in MainStayPositions : MainStayScore(j) = MainStayScore(i) => i <= j

\* the stay the trauma streak or the score gives
TraumaOrScoreStay ==
    IF TraumaStreakLast >= LowestScoreStay
    THEN FirstLongest(1..TraumaStreakLast)
    ELSE LowestScoreStay

\* C26 as stated: when no procedure ends the selection, FindMainStay returns
\* the longest of the stays with a main diagnosis Z515, Z502 or Z503 if
\* there is one; else the longest stay of the leading trauma streak if the
\* streak ends at or after the lowest-score stay; else the first of the
\* lowest-score stays.
C26_SocialStayWinsIfFound ==
    (MainStayReturned /\ ~MainStayShortCircuit)
    => ms.main_stay = (IF ZxStays # {} THEN FirstLongest(ZxStays)
                       ELSE TraumaOrScoreStay)

\* C26 amended: when no procedure ends the selection, FindMainStay returns
\* the first stay with a main diagnosis Z515, Z502 or Z503 that is as long as
\* the longest stay of the cluster if there is one; else (no such diagnosis,
\* or every stay that has one is shorter than another stay) the longest stay
\* of the leading trauma streak if the streak ends at or after the
\* lowest-score stay; else the first of the lowest-score stays.
C26_SocialStayWinsIfLongest ==
    (MainStayReturned /\ ~MainStayShortCircuit)
    => LET longest == {i \in ZxStays :
                          \A j \in MainStayPositions :
                              MainStayNights(j) <= MainStayNights(i)}
       IN ms.main_stay = (IF longest # {} THEN FirstLongest(longest)
                          ELSE TraumaOrScoreStay)

\* a social-circumstances stay as long as the longest stay wins over a
\* trauma streak and over a lower score
C26_Witness ==
    /\ MainStayReturned
    /\ ~MainStayShortCircuit
    /\ Len(ms.kinds) = 3
    /\ ms.kinds[1].main_diagnosis = "S720"
    /\ ms.kinds[3].main_diagnosis = "Z515"
    /\ MainStayNights(3) = MainStayNights(1)
    /\ ms.main_stay = 3
    /\ TraumaOrScoreStay # 3

\* a shorter social-circumstances stay loses to the trauma streak
C26_ShorterSocialWitness ==
    /\ MainStayReturned
    /\ ~MainStayShortCircuit
    /\ ZxStays # {}
    /\ TraumaStreakLast >= LowestScoreStay
    /\ ms.main_stay = FirstLongest(1..TraumaStreakLast)
    /\ ms.main_stay \notin ZxStays

\* the lowest score decides, and it is not the first stay
C26_ScoreWitness ==
    /\ MainStayReturned
    /\ ~MainStayShortCircuit
    /\ ZxStays = {}
    /\ TraumaStreakLast < LowestScoreStay
    /\ TraumaStreakLast > 0
    /\ ms.main_stay = LowestScoreStay
    /\ ms.main_stay > 1

(***************************************************************************)
(* Claims about Aggregate                                                  *)
(***************************************************************************)
\* Aggregate got past CheckMainErrors and FindIndex: the merge step and the
\* collection of diagnoses and procedures ran
AggregateMerged == ac.pc = "done" /\ Assigned(ac)
AggregatePositions == IF ac = NoCall THEN {} ELSE 1..Len(ac.stays)

StrictlyIncreasing(list) == \A k \in 1..(Len(list) - 1) : list[k] < list[k + 1]
Elements(list) == {list[k] : k \in 1..Len(list)}

\* the dictionary entries the diagnoses of the cluster's stays resolve to
ResolvedDiagnoses ==
    {FindDiagnosis(TheIndex, code) :
        code \in UNION {{ac.stays[i].main_diagnosis, ac.stays[i].linked_diagnosis}
                        \cup Elements(ac.stays[i].diagnoses) : i \in AggregatePositions}}
    \ {0}

\* the dictionary entries the procedure realisations resolve to
ResolvedProcedures ==
    UNION {{FindProcedure(TheIndex, ac.stays[i].procedures[j].proc,
                          ac.stays[i].procedures[j].phase, ac.stays[i].exit.date) :
               j \in 1..Len(ac.stays[i].procedures)} : i \in AggregatePositions}
    \ {0}

\* C27: after Aggregate collected the diagnoses and procedures of a cluster,
\* each of the two lists is strictly increasing by entry address (sorted,
\* nothing twice) and holds exactly the dictionary entries that the main,
\* linked and associated diagnoses (for the other list the procedure
\* realisations) of the stays resolve to.
C27_ListsSortedWithoutDuplicates ==
    AggregateMerged =>
        /\ StrictlyIncreasing(ac.diagnoses)
        /\ Elements(ac.diagnoses) = ResolvedDiagnoses
        /\ ac.agg.diagnoses = ac.diagnoses
        /\ StrictlyIncreasing(ac.procedures)
        /\ Elements(ac.procedures) = ResolvedProcedures
        /\ ac.agg.procedures = ac.procedures

\* two stays with the same main diagnosis, one of them naming a diagnosis
\* twice and an unknown one, the other naming a procedure twice: every entry
\* is in its list once
C27_Witness ==
    /\ AggregateMerged
    /\ Len(ac.stays) = 2
    /\ ac.stays[1].main_diagnosis = ac.stays[2].main_diagnosis
    /\ \E i \in 1..2 : ac.stays[i].diagnoses = <<"S720", "S720", "X999">>
    /\ \E i \in 1..2 : Len(ac.stays[i].procedures) = 3
    /\ Len(ac.diagnoses) = 2
    /\ Len(ac.procedures) = 2

\* the number of birthdays from the birthdate up to the date, the date
\* included
WholeYears(date, birthdate) ==
    Cardinality({y \in (birthdate.year + 1)..date.year :
                    DateValue(MkDate(y, birthdate.month, birthdate.day))
                        <= DateValue(date)})

\* C28: for a cluster that reaches the merge step, the duration of the
\* aggregate is the sum over the stays of exit date - entry date, its age is
\* the number of whole years from the birthdate of the first stay to its
\* entry date (the difference of the years, less one when the entry comes
\* before the birthday in the year), age_days is first entry date -
\* birthdate, and the representative stay has the exit of the last stay and
\* the largest IGS2 of the stays.
C28_MergedDurationAgeExitIgs2 ==
    AggregateMerged =>
        LET first == ac.stays[1]
            last == ac.stays[Len(ac.stays)]
            before == \/ first.entry.date.month < first.birthdate.month
                      \/ /\ first.entry.date.month = first.birthdate.month
                         /\ first.entry.date.day < first.birthdate.day
        IN /\ ac.agg.duration = NightsBefore(ac.kinds, Len(ac.kinds) + 1)
           /\ ac.agg.age = WholeYears(first.entry.date, first.birthdate)
           /\ ac.agg.age = (first.entry.date.year - first.birthdate.year)
                           - (IF before THEN 1 ELSE 0)
           /\ ac.agg.age_days
              = ToJulianDays(first.entry.date) - ToJulianDays(first.birthdate)
           /\ ac.agg.stay.exit = last.exit
           /\ \A i \in AggregatePositions : ac.stays[i].igs2 <= ac.agg.stay.igs2
           /\ \E i \in AggregatePositions : ac.stays[i].igs2 = ac.agg.stay.igs2
           /\ ac.agg.stays = ac.stays

\* two stays of 9 and 1 nights, the patient born on 5 march 1980 and
\* admitted on 2 january 2016: 10 days, 35 years, the exit and the IGS2 (30)
\* of the second stay
C28_Witness ==
    /\ AggregateMerged
    /\ Len(ac.stays) = 2
    /\ ac.stays[1].birthdate = MkDate(1980, 3, 5)
    /\ ac.kinds[1].nights = 9
    /\ ac.kinds[2].nights = 1
    /\ ac.agg.duration = 10
    /\ ac.agg.age = 35
    /\ ac.agg.stay.exit.date = Jan16(12)
    /\ ac.stays[1].igs2 = 10
    /\ ac.agg.stay.igs2 = 30

\* a newborn admitted eight days after birth, and a patient admitted on the
\* birthday
C28_NewbornWitness ==
    /\ AggregateMerged
    /\ ac.stays[1].birthdate = MkDate(2015, 12, 25)
    /\ ac.agg.age = 0
    /\ ac.agg.age_days = 8
C28_BirthdayWitness ==
    /\ AggregateMerged
    /\ ac.stays[1].birthdate = MkDate(1976, 1, 2)
    /\ ac.agg.age = 40

\* the procedure realisations of the cluster, as <<stay, rank>>, and those
\* that FindProcedure(code, phase, exit date) does not resolve
Realisations ==
    UNION {{<<i, j>> : j \in 1..Len(ac.stays[i].procedures)} : i \in AggregatePositions}
RealisationAt(r) == ac.stays[r[1]].procedures[r[2]]
NotResolved(r) ==
    FindProcedure(TheIndex, RealisationAt(r).proc, RealisationAt(r).phase,
                  ac.stays[r[1]].exit.date) = 0
\* the dictionary has the code of the realisation in another phase, in its
\* own phase
HasOtherPhase(r) ==
    \E q \in FindProcedures(TheIndex, RealisationAt(r).proc) :
        TheIndex.procedures[q].phase # RealisationAt(r).phase
HasSamePhase(r) ==
    \E q \in FindProcedures(TheIndex, RealisationAt(r).proc) :
        TheIndex.procedures[q].phase = RealisationAt(r).phase
Error73Raised ==
    \E k \in 1..Len(ac.raised) : ac.raised[k].error = 73 /\ ac.raised[k].blocking
\* the activities of the realisations that resolve, or-ed (they are 2 or 4)
ResolvedActivities ==
    (IF \E r \in Realisations : ~NotResolved(r) /\ RealisationAt(r).activities = 2
     THEN 2 ELSE 0)
    + (IF \E r \in Realisations : ~NotResolved(r) /\ RealisationAt(r).activities = 4
       THEN 4 ELSE 0)

\* C29 as stated: a realisation whose code and phase have no dictionary
\* entry valid at the exit date of its stay raises the blocking error 73
\* unless the dictionary has the code in a different phase; such a
\* realisation is tolerated and adds nothing to the list or the mask.
C29_OtherPhaseTolerated ==
    AggregateMerged =>
        /\ Error73Raised <=> \E r \in Realisations : NotResolved(r) /\ ~HasOtherPhase(r)
        /\ Elements(ac.procedures) = ResolvedProcedures
        /\ ac.agg.proc_activities = ResolvedActivities

\* C29 amended: such a realisation raises the blocking error 73 unless the
\* dictionary has an entry with the same code and the same phase (one that
\* is not valid at the exit date); it is then tolerated: no error is
\* recorded for it, and it adds nothing to the procedure list or to the
\* activity mask. A code the dictionary has in other phases only raises 73.
C29_SamePhaseTolerated ==
    AggregateMerged =>
        /\ Error73Raised <=> \E r \in Realisations : NotResolved(r) /\ ~HasSamePhase(r)
        /\ (73 \in ac.errors.errors) <=> Error73Raised
        /\ Elements(ac.procedures) = ResolvedProcedures
        /\ ac.agg.proc_activities = ResolvedActivities

\* DDFA004 in phase 0 in a stay that ends before the entry of the
\* dictionary begins: nothing raised, nothing listed, the cluster is valid
C29_Witness ==
    /\ AggregateMerged
    /\ Len(ac.stays) = 1
    /\ \E r \in Realisations :
          NotResolved(r) /\ HasSamePhase(r) /\ ~HasOtherPhase(r)
    /\ ac.raised = <<>>
    /\ ac.errors = EmptyErrorSet
    /\ ac.ghm = NoGhm
    /\ ac.procedures = <<>>
    /\ ac.agg.proc_activities = 0

\* a code the dictionary has in another phase only: error 73, the cluster
\* fails
C29_OtherPhaseWitness ==
    /\ AggregateMerged
    /\ \E r \in Realisations : NotResolved(r) /\ HasOtherPhase(r) /\ ~HasSamePhase(r)
    /\ Error73Raised
    /\ ac.errors.main_error = 73
    /\ ac.ghm = Ghm90Z00Z

(***************************************************************************)
(* Claims about the priorities of the supplement categories                *)
(***************************************************************************)
\* the priorities the switch has given to a category so far
PrioritiesOf(counter) == {p.priority : p \in {q \in rs.seen : q.counter = counter}}
SeenCategories == {p.counter : p \in rs.seen}
SupplementCategories == {"rea", "reasi", "si", "src", "nn1", "nn2", "nn3", "rep"}

\* one priority per category, in 1..8, and not the same for two categories
OnePriorityEach ==
    /\ \A p, q \in rs.seen : p.counter = q.counter => p.priority = q.priority
    /\ \A p \in rs.seen : p.priority \in 1..8
    /\ \A p, q \in rs.seen : p.priority = q.priority => p.counter = q.counter

\* C30 as stated: each category is resolved with one priority, in 1..8,
\* different from the priority of every other category, and no category
\* is resolved with a priority above the one of rea
C30_ReaHighestPriority ==
    rs.pc = "run" =>
        /\ OnePriorityEach
        /\ \A p, q \in rs.seen : q.counter = "rea" => p.priority <= q.priority

\* C30: each category is resolved with one priority, in 1..8, different
\* from the priority of every other category; rep has the highest
\* priority (8), rea the one below (7)
C30_RepHighestThenRea ==
    rs.pc = "run" =>
        /\ OnePriorityEach
        /\ \A p, q \in rs.seen : q.counter = "rep" => p.priority <= q.priority
        /\ \A p, q \in rs.seen :
              q.counter = "rea" /\ p.counter # "rep" => p.priority <= q.priority
        /\ PrioritiesOf("rep") \subseteq {8}
        /\ PrioritiesOf("rea") \subseteq {7}

\* every category has been resolved
C30_Witness == rs.pc = "run" /\ SeenCategories = SupplementCategories
\* rea and rep have been resolved
C30_RepWitness ==
    rs.pc = "run" /\ PrioritiesOf("rea") = {7} /\ PrioritiesOf("rep") = {8}

(***************************************************************************)
(* Claims about the UHCD-only stays of ClassifyGhs                         *)
(***************************************************************************)
\* every stay of the cluster is in a unit of authorization type 7
GhsAllUhcd ==
    \A i \in 1..Len(gh.stays) :
        GetAuthorizationType(TheAuthorizationSet, gh.stays[i].unit,
                             gh.stays[i].exit.date) = 7
\* ClassifyGhs goes on to the lookup; the GHM handed over is the one
\* ClassifyGhm gives the cluster, as in ClassifyRaw
GhsProceeds == GhmIsValid(gh.ghm) /\ ~GhmIsError(gh.ghm)
GhsOfCluster == gh.ghm = ClassifyGhm(gh.agg).ghm
\* the GHM of the aggregate with the duration forced to 0
GhsRecomputed == ClassifyGhm([gh.agg EXCEPT !.duration = 0]).ghm
\* the patient came from home and went home after at least one night
GhsHomeToHome ==
    /\ gh.agg.duration > 0
    /\ gh.stays[1].entry.mode = "8"
    /\ gh.stays[Len(gh.stays)].exit.mode = "8"
\* the aggregate and the error set of the caller are as before the call
GhsCallerUntouched ==
    /\ gh.agg = GhsAggregate(gh.stays, gh.rules)
    /\ gh.errors = GhsErrors(gh.stays)

C31_DeathWitness ==
    /\ gh.pc = "done" /\ GhsProceeds /\ GhsOfCluster
    /\ GhsAllUhcd /\ gh.stays[1].exit.mode = "9"
    /\ gh.lookup = gh.ghm /\ gh.lookup # GhsRecomputed

(***************************************************************************)
(* Claims about the swap of the main and linked diagnoses                  *)
(***************************************************************************)
\* the pair of the traversal
SwapPair == <<tr.ctx.main_diagnosis, tr.ctx.linked_diagnosis>>
\* the node the traversal is about to read is a test with the function
SwapAtFunction(f) ==
    /\ tr.pc = "loop" /\ tr.i < Len(tr_nodes)
    /\ tr.ghm_node_idx \in 0..(Len(tr_nodes) - 1)
    /\ tr_nodes[tr.ghm_node_idx + 1].type = "Test"
    /\ tr_nodes[tr.ghm_node_idx + 1].function = f
\* the linked diagnosis of the aggregate is one function 34 swaps
SwapAllowed(stay) ==
    /\ stay.linked_diagnosis # ""
    /\ FindDiagnosis(TheIndex, stay.linked_diagnosis) # 0
    /\ \E p \in {FindDiagnosis(TheIndex, stay.linked_diagnosis)} :
          \/ Attributes(TheIndex.diagnoses[p], stay.sex).cmd # 0
          \/ Attributes(TheIndex.diagnoses[p], stay.sex).jump # 3
\* the function of the k-th node the traversal went through (-1: terminal)
VisitedFunction(k) ==
    IF tr_nodes[tr.visited[k] + 1].type = "Test"
    THEN tr_nodes[tr.visited[k] + 1].function ELSE -1
\* the functions 34 the traversal has gone through
SwapsVisited == {k \in 1..Len(tr.visited) : VisitedFunction(k) = 34}

\* the pair is the one of the aggregate, in either order, and is swapped
\* only for a linked diagnosis function 34 swaps and after a function 34
SwapPairOf(stay) ==
    /\ SwapPair \in {<<stay.main_diagnosis, stay.linked_diagnosis>>,
                     <<stay.linked_diagnosis, stay.main_diagnosis>>}
    /\ SwapPair # <<stay.main_diagnosis, stay.linked_diagnosis>>
       => SwapAllowed(stay) /\ SwapsVisited # {}
SwapPairInvariant == \E agg \in {TreeAggregate} : SwapPairOf(agg.stay)
\* a step keeps a swapped pair, takes the child of function 35 that tells
\* whether the main diagnosis is the one of the aggregate, and leaves the
\* cluster and the nodes alone
SwapStepOf(stay) ==
    /\ SwapPair = <<stay.linked_diagnosis, stay.main_diagnosis>> /\ SwapsVisited # {}
       => /\ tr'.ctx.main_diagnosis = stay.linked_diagnosis
          /\ tr'.ctx.linked_diagnosis = stay.main_diagnosis
    /\ SwapAtFunction(35)
       => /\ tr'.pc = "loop"
          /\ tr'.ghm_node_idx = tr_nodes[tr.ghm_node_idx + 1].children_idx
                                 + (IF tr.ctx.main_diagnosis # stay.main_diagnosis
                                    THEN 1 ELSE 0)
          /\ tr'.ctx = tr.ctx
    /\ tr_stays' = tr_stays /\ tr_nodes' = tr_nodes
SwapStep == \E agg \in {TreeAggregate} : SwapStepOf(agg.stay)

\* C32: during a traversal the pair (current main, current linked) is the
\* pair of the aggregate in either order; function 34 swaps only a linked
\* diagnosis that is set, known and has cmd # 0 or jump # 3; a swap once
\* done is not undone by a later function 34; function 35 gives 1 exactly
\* when the current main diagnosis is not the one of the aggregate; the
\* aggregate is not modified
C32_SwapIsLocalAndKept == [](SwapPairInvariant) /\ [][SwapStep]_vars

\* a traversal through two functions 34 and then function 35, which found
\* the diagnoses swapped; one that function 34 left alone
C32_Witness ==
    /\ Len(tr.visited) = 3
    /\ VisitedFunction(1) = 34 /\ VisitedFunction(2) = 34 /\ VisitedFunction(3) = 35
    /\ tr_stays[1].linked_diagnosis = "B000"
    /\ SwapPair = <<"B000", "A000">>
    /\ tr.ghm_node_idx = tr_nodes[tr.visited[3] + 1].children_idx + 1
C32_KeptWitness ==
    /\ SwapsVisited # {} /\ tr_stays[1].linked_diagnosis = "D003"
    /\ SwapPair = <<"A000", "D003">>

(***************************************************************************)
(* Claims about the severity of a GHM without mode                         *)
(***************************************************************************)
\* the call reached the branch of the GHM without mode: neither the
\* ambulatory rule nor the short duration rule applied
SeverityUnsetMode ==
    /\ SeverityReturned /\ sv.ghm.mode = ""
    /\ ~(sv.ghm_root_info.allow_ambulatory /\ sv.duration = 0)
    /\ ~(/\ sv.ghm_root_info.short_duration_treshold # 0
         /\ sv.duration < sv.ghm_root_info.short_duration_treshold)
\* the severities of the diagnoses of the aggregate that are neither the
\* main nor the linked diagnosis and are not excluded, and the highest one
SeverityCandidates(agg) ==
    {Attributes(AggDiagnoses(agg)[k], agg.stay.sex).severity :
        k \in {j \in 1..Len(agg.diagnoses) :
                  /\ AggDiagnoses(agg)[j].diag # agg.stay.main_diagnosis
                  /\ AggDiagnoses(agg)[j].diag # agg.stay.linked_diagnosis
                  /\ ~TestExclusion(agg, sv.ghm_root_info, AggDiagnoses(agg)[j],
                         agg.index.diagnoses[FindDiagnosis(agg.index,
                                                           agg.stay.main_diagnosis)],
                         FindDiagnosis(agg.index, agg.stay.linked_diagnosis))}}
HighestSeverity(agg) ==
    IF SeverityCandidates(agg) = {} THEN 0
    ELSE CHOOSE m \in SeverityCandidates(agg) : \A n \in SeverityCandidates(agg) : n <= m
\* the rules that can adjust a severity m
OldAgeBump(m) ==
    sv.age >= sv.ghm_root_info.old_age_treshold /\ m < sv.ghm_root_info.old_severity_limit
YoungAgeBump(m) ==
    sv.age < sv.ghm_root_info.young_age_treshold
    /\ m < sv.ghm_root_info.young_severity_limit
DeathRule(m) == sv.stay.exit.mode = "9" /\ m = 0
\* the severity before the clamp: one adjustment at most
AdjustedOnce(m) ==
    IF OldAgeBump(m) \/ YoungAgeBump(m) THEN m + 1 ELSE IF DeathRule(m) THEN 1 ELSE m
SeverityLevelOf(m) ==
    /\ sv.out.raised = <<>>
    /\ GhmRoot(sv.out.ghm) = GhmRoot(sv.ghm)
    /\ sv.out.ghm.mode \in {"1", "2", "3", "4"}
    /\ AdjustedOnce(m) \in {m, m + 1}
    /\ ModeLevels[sv.out.ghm.mode]
         = (IF sv.duration >= 3 THEN Min(sv.duration - 2, AdjustedOnce(m)) ELSE 0)
    /\ sv.duration >= 3 => ModeLevels[sv.out.ghm.mode] <= Min(m + 1, sv.duration - 2)
    /\ sv.duration < 3 => sv.out.ghm.mode = "1"

C33_ExcludedWitness ==
    /\ SeverityUnsetMode
    /\ sv.age \in 14..79 /\ sv.stay.diagnoses = <<"B000">>
    /\ sv.stay.exit.mode = "8" /\ sv.duration = 5
    /\ SeverityCandidates(SeverityAggregate(sv.stay, sv.ghm_root_info)) = {}
    /\ sv.out.ghm.mode = "1"
C33_DeathWitness ==
    /\ SeverityUnsetMode
    /\ sv.age \in 14..79 /\ sv.stay.diagnoses = <<"B000">>
    /\ sv.stay.exit.mode = "9" /\ sv.duration = 5
    /\ sv.ghm_root_info.old_severity_limit = 2
    /\ sv.out.ghm.mode = "3"
C33_BabyWitness ==
    /\ SeverityUnsetMode
    /\ sv.age < 2 /\ sv.stay.diagnoses = <<"P000">>
    /\ sv.ghm_root_info.young_severity_limit = 3 /\ sv.duration = 5
    /\ sv.out.ghm.mode = "3"

(***************************************************************************)
(* Claims about the duration TestGhs compares with the minimal duration    *)
(***************************************************************************)
TestGhsReturned == gh.pc = "tested"
\* the stays of the cluster the required authorization is held for: by
\* the unit of the stay, or by the facility, at the exit date
AuthorizedStays ==
    {i \in 1..Len(gh.stays) :
        TestAuthorization(TheAuthorizationSet, gh.stays[i].unit, gh.stays[i].exit.date,
                          gh.ghs_access_info.unit_authorization)}
\* the nights of a stay, and its days: one for a stay without a night
StayNights ==
    [i \in 1..Len(gh.stays) |-> DateDiff(gh.stays[i].exit.date, gh.stays[i].entry.date)]
StayDays == [i \in 1..Len(gh.stays) |-> IF StayNights[i] = 0 THEN 1 ELSE StayNights[i]]
\* the result of a rule that tests the authorization and the minimal
\* duration only, for a duration counted in the authorized units
TestGhsResultFor(duration) ==
    IF gh.ghs_access_info.unit_authorization # 0
    THEN /\ gh.duration = duration
         /\ gh.out = (/\ AuthorizedStays # {}
                      /\ ~(/\ gh.ghs_access_info.minimal_duration # 0
                           /\ duration < gh.ghs_access_info.minimal_duration))
    ELSE /\ gh.duration = gh.agg.duration
         /\ gh.out = ~(/\ gh.ghs_access_info.minimal_duration # 0
                       /\ gh.agg.duration < gh.ghs_access_info.minimal_duration)

\* C34 as stated: with a required unit authorization the duration compared
\* with the minimal duration is the sum of exit - entry over the stays that
\* hold it, and the rule fails when no stay holds it; without one the
\* duration of the cluster is used
C34_SumOfNights == TestGhsReturned => TestGhsResultFor(SumOver(StayNights, AuthorizedStays))

\* C34 amended: a stay that holds the authorization and has no night
\* counts for one day
C34_SumOfDays == TestGhsReturned => TestGhsResultFor(SumOver(StayDays, AuthorizedStays))

\* a stay without a night in a unit of type 4 followed by two nights
\* elsewhere passes the rule that asks for one day under authorization 4
C34_Witness ==
    /\ TestGhsReturned
    /\ Len(gh.stays) = 2 /\ AuthorizedStays = {1} /\ StayNights[1] = 0
    /\ gh.ghs_access_info.unit_authorization = 4
    /\ gh.ghs_access_info.minimal_duration = 1
    /\ gh.agg.duration = 2 /\ gh.duration = 1 /\ gh.out
\* no stay holds the authorization: the rule fails whatever the duration
C34_NoneWitness ==
    /\ TestGhsReturned
    /\ gh.ghs_access_info.unit_authorization = 7 /\ AuthorizedStays = {}
    /\ gh.ghs_access_info.minimal_duration = 0 /\ ~gh.out
\* one stay of two holds it: its nights only are compared
C34_PartWitness ==
    /\ TestGhsReturned
    /\ Len(gh.stays) = 2 /\ AuthorizedStays = {1} /\ gh.duration = 3
    /\ gh.agg.duration = 5
    /\ gh.ghs_access_info.minimal_duration = 4 /\ ~gh.out

(***************************************************************************)
(* Claims about the entry mode and origin checks of CheckMainErrors        *)
(***************************************************************************)
AggregateReturned == ac.pc = "done"
ValidOrigins == {"1", "2", "3", "4", "6", "R"}
\* the errors the entry mode and origin of a stay call for
EntryErrorsOf(stay) ==
    IF stay.error_mask \cap {"MalformedEntryMode", "MalformedEntryOrigin"} # {} THEN {25}
    ELSE IF stay.entry.mode \in {"0", "6", "7"}
    THEN (IF stay.entry.origin = "" THEN {53}
          ELSE IF stay.entry.origin \notin ValidOrigins THEN {25} ELSE {})
         \cup (IF \/ stay.entry.mode = "0" /\ stay.entry.origin = "6"
                  \/ stay.entry.mode = "6" /\ stay.entry.origin = "R"
               THEN {25} ELSE {})
    ELSE IF stay.entry.mode = "8"
    THEN (IF stay.entry.origin \in {"", "5", "7"} THEN {} ELSE {25})
    ELSE IF stay.entry.mode = "" THEN {24}
    ELSE {25}
EntryErrorsOfCluster == UNION {EntryErrorsOf(ac.stays[i]) : i \in 1..Len(ac.stays)}

\* C35: entry modes '0', '6' and '7' share the check of the origin (53
\* when missing, 25 outside 1, 2, 3, 4, 6, R, nothing inside); mode '0'
\* with origin '6' and mode '6' with origin 'R' raise 25 besides; a
\* missing mode raises 24, a mode other than 0, 6, 7, 8 raises 25; each of
\* these errors makes the cluster end with 90Z00Z
C35_SharedOriginCheck ==
    AggregateReturned
    => /\ ac.errors.errors \cap {24, 25, 53} = EntryErrorsOfCluster
       /\ EntryErrorsOfCluster # {} => ac.ghm = Ghm90Z00Z

\* entry mode '7' without origin: error 53 and 90Z00Z
C35_Witness ==
    /\ AggregateReturned /\ Len(ac.stays) = 1
    /\ ac.stays[1].entry.mode = "7" /\ ac.stays[1].entry.origin = ""
    /\ ac.stays[1].error_mask = {}
    /\ 53 \in ac.errors.errors /\ 25 \notin ac.errors.errors
    /\ ac.ghm = Ghm90Z00Z
\* mode '6' with origin 'R': 25 although R is a valid origin
C35_TransferWitness ==
    /\ AggregateReturned /\ Len(ac.stays) = 2
    /\ ac.stays[2].entry.mode = "6" /\ ac.stays[2].entry.origin = "R"
    /\ 25 \in ac.errors.errors /\ ac.ghm = Ghm90Z00Z
\* mode '7' with origin 'R': nothing raised by the entry checks
C35_ValidWitness ==
    /\ AggregateReturned /\ Len(ac.stays) = 1
    /\ ac.stays[1].entry.mode = "7" /\ ac.stays[1].entry.origin = "R"
    /\ ac.stays[1].error_mask = {}
    /\ ac.errors.errors \cap {24, 25, 53} = {}
\* no entry mode: 24
C35_MissingModeWitness ==
    /\ AggregateReturned /\ Len(ac.stays) = 1
    /\ ac.stays[1].entry.mode = "" /\ ac.stays[1].error_mask = {}
    /\ 24 \in ac.errors.errors /\ ac.ghm = Ghm90Z00Z

(***************************************************************************)
(* Claims about ClassifyGhm on an error GHM of RunGhmTree                  *)
(***************************************************************************)
ClassifyGhmReturned == sv.pc = "classified"

C36_SentinelWithKnownRoot ==
    /\ ClassifyGhmReturned /\ GhmIsError(sv.tree.ghm)
    /\ \/ \E k \in 1..Len(sv.ghm_roots) : sv.ghm_roots[k].ghm_root = GhmRoot(sv.tree.ghm)
       \/ sv.tree.ghm = Ghm90Z03Z
    => sv.out.ghm = sv.tree.ghm /\ sv.out.errors = sv.tree.errors

\* the checks after the tree refuse a GHM of category 28 for two stays
\* (error 150, 90Z00Z); without the root 90Z00 ClassifyGhm returns 90Z03Z
\* with error 4 as the main error
C36_Witness ==
    /\ ClassifyGhmReturned
    /\ sv.tree.ghm = Ghm90Z00Z /\ sv.tree.errors.main_error = 150
    /\ sv.out.ghm = Ghm90Z03Z /\ sv.out.errors.main_error = 4
\* with the root listed the error GHM and its error are returned
C36_KnownRootWitness ==
    /\ ClassifyGhmReturned
    /\ sv.tree.ghm = Ghm90Z00Z /\ sv.tree.errors.main_error = 150
    /\ sv.out.ghm = Ghm90Z00Z /\ sv.out.errors.main_error = 150

(***************************************************************************)
(* Claims about the stay FindMainStay returns                              *)
(***************************************************************************)
\* the locals of FindMainStay when the loop over the stays ends, or the
\* return from inside the loop
RECURSIVE MainStayLocals(_, _, _, _, _)
MainStayLocals(index, stays, duration, pos, st) ==
    IF pos > Len(stays) THEN [returned |-> FALSE, st |-> st]
    ELSE IF ScanMainStayProcedures(index, stays[pos], duration, 1, 0).return_stay
    THEN [returned |-> TRUE, st |-> st]
    ELSE MainStayLocals(index, stays, duration, pos + 1,
             MainStayStep(index, st, stays[pos], pos,
                 ScanMainStayProcedures(index, stays[pos], duration, 1, 0).proc_priority))
MainStaySet(locals) ==
    /\ ms.main_stay \in MainStayPositions
    /\ ~locals.returned =>
          /\ locals.st.score_stay \in MainStayPositions
          /\ locals.st.zx_stay = 0 /\ locals.st.last_trauma_stay >= locals.st.score_stay
                => locals.st.trauma_stay \in MainStayPositions

\* C37: on a cluster of two stays or more, none with a negative duration,
\* FindMainStay returns a stay of the cluster and never a null pointer:
\* the stay of the lowest score is always set, and the longest trauma stay
\* is set whenever the trauma branch is taken
C37_MainStayNeverNull ==
    MainStayReturned /\ Len(ms.stays) >= 2
    => \E locals \in {MainStayLocals(TheIndex, ms.stays, SumDurations(ms.stays), 1,
                                      MainStayInit)} : MainStaySet(locals)

\* two trauma stays without a night: the trauma branch returns the first
C37_Witness ==
    /\ MainStayReturned /\ Len(ms.stays) = 2
    /\ \A k \in 1..2 : ms.kinds[k] = MainStayKind("S720", 0, "")
    /\ ms.main_stay = 1
\* no trauma stay at all: the stay of the lowest score
C37_ScoreWitness ==
    /\ MainStayReturned /\ Len(ms.stays) = 3
    /\ \A k \in 1..3 : ms.kinds[k].main_diagnosis = "A000" /\ ms.kinds[k].proc = ""
    /\ ms.main_stay = 3

(***************************************************************************)
(* Claims about the per-stay loop of CountSupplements                      *)
(***************************************************************************)
InCountLoop == su.pc \in {"loop", "done"}
\* the pending run has a priority and a counter, the stay just resolved
\* has a priority exactly when it has a counter, and no increment went
\* through a null counter
PendingRunInvariant ==
    InCountLoop
    => /\ su.st.ambu_stay # 0 => su.st.ambu_priority >= 1 /\ su.st.ambu_counter # ""
       /\ su.resolved.priority > 0 <=> su.resolved.counter # ""
       /\ ~su.st.fault
\* a step of the loop leaves every counter at its value or above
CountersNeverDecrease ==
    InCountLoop /\ su'.pc \in {"loop", "done"}
    => \A t \in SupplementTypes : su'.st.counters[t] >= su.st.counters[t]

\* C38: in every state of the loop a pending run has a priority >= 1 and
\* a counter, a stay has a priority > 0 exactly when a counter was
\* resolved for it, no increment goes through a null counter and no step
\* decreases a counter
C38_PendingRunHasCounter == [](PendingRunInvariant) /\ [][CountersNeverDecrease]_vars

\* a stay without a night in a unit whose switch resolves nothing
\* (function 1, patient of 2 years or more) does not start a run, and the
\* run of the next stay adds its day at the end
C38_Witness ==
    /\ su.pc = "done" /\ Len(su.stays) = 2
    /\ su.kinds[1] = [unit |-> 10004, nights |-> 0, igs2 |-> 0]
    /\ su.kinds[2] = [unit |-> 10002, nights |-> 0, igs2 |-> 0]
    /\ su.st.ambu_stay = 2 /\ su.st.counters["si"] = 1
\* a run pending while a stay is resolved to nothing
C38_PendingWitness ==
    /\ su.pc = "loop" /\ su.pos = 3
    /\ su.st.ambu_stay = 1 /\ su.st.ambu_priority = 5
    /\ su.resolved = Unresolved

(***************************************************************************)
(* Claims about the comparison of the priorities of a run and of a stay    *)
(***************************************************************************)
\* the end of the loop body with the comparison 'ambu_priority > priority'
CountStayStrict(st, stay, pos, r) ==
    LET days == DateDiff(stay.exit.date, stay.entry.date)
                + BoolInt(stay.exit.mode = "9")
        st1 == [st EXCEPT !.prev_reanimation = r.reanimation]
    IN IF stay.exit.date # stay.entry.date
       THEN [(IF st.ambu_stay # 0 /\ st.ambu_priority > r.priority
              THEN AddDays(IF r.counter # "" THEN AddDays(st1, r.counter, days - 1)
                           ELSE st1,
                           st.ambu_counter, 1)
              ELSE IF r.counter # "" THEN AddDays(st1, r.counter, days)
              ELSE st1)
             EXCEPT !.ambu_stay = 0, !.ambu_priority = 0]
       ELSE IF r.priority > st.ambu_priority
       THEN [st1 EXCEPT !.ambu_stay = pos, !.ambu_priority = r.priority,
                        !.ambu_counter = r.counter]
       ELSE st1
\* what the switch resolves the stay at pos to, for the locals st
ResolvedAt(agg, ghs, st, pos) ==
    LET auth_info == FindAuthorization(agg.index, "Unit",
                         GetAuthorizationType(TheAuthorizationSet, agg.stays[pos].unit,
                                              agg.stays[pos].exit.date))
    IN IF auth_info = 0 THEN [skipped |-> TRUE, r |-> Unresolved]
       ELSE [skipped |-> FALSE,
             r |-> ResolveSupplement(agg, pos,
                       agg.index.authorizations[auth_info].function, ghs,
                       Igs2SrcAdjust(agg.age), st.prev_reanimation)]
\* the loop with the strict comparison, and the counters it ends with
RECURSIVE StrictLoop(_, _, _, _)
StrictLoop(agg, ghs, st, pos) ==
    IF pos > Len(agg.stays)
    THEN (IF st.ambu_stay # 0 THEN AddDays(st, st.ambu_counter, 1) ELSE st)
    ELSE StrictLoop(agg, ghs,
                    IF ResolvedAt(agg, ghs, st, pos).skipped THEN st
                    ELSE CountStayStrict(st, agg.stays[pos], pos,
                                         ResolvedAt(agg, ghs, st, pos).r),
                    pos + 1)
\* the counters and priorities the stays of the cluster are resolved to
RECURSIVE ResolvedPairs(_, _, _, _)
ResolvedPairs(agg, ghs, prev_reanimation, pos) ==
    IF pos > Len(agg.stays) THEN {}
    ELSE LET at == ResolvedAt(agg, ghs, [prev_reanimation |-> prev_reanimation], pos)
         IN (IF at.r.counter = "" THEN {} ELSE {<<at.r.priority, at.r.counter>>})
            \cup ResolvedPairs(agg, ghs,
                     IF at.skipped THEN prev_reanimation ELSE at.r.reanimation,
                     pos + 1)
CountLoopDone == su.pc = "done"

\* C39: the priority of a resolved stay determines its counter, and the
\* loop with 'pending priority > stay priority' in place of '>=' ends
\* with the same counters
C39_StrictComparisonSameCounters ==
    CountLoopDone
    => /\ \A p, q \in ResolvedPairs(su.agg, su.ghs,
                           SupplementInit(su.agg, NoSupplements).prev_reanimation, 1) :
             p[1] = q[1] => p[2] = q[2]
       /\ su.st.counters
             = StrictLoop(su.agg, su.ghs, SupplementInit(su.agg, NoSupplements),
                          1).counters

\* a run in a unit of function 9 ended by a stay of two nights in a unit
\* of function 4: the same priority 5 and the same counter reasi
C39_Witness ==
    /\ CountLoopDone /\ Len(su.stays) = 2
    /\ su.kinds[1] = [unit |-> 10013, nights |-> 0, igs2 |-> 0]
    /\ su.kinds[2] = [unit |-> 10001, nights |-> 2, igs2 |-> 0]
    /\ su.stays[2].exit.mode = "8"
    /\ su.st.counters["reasi"] = 2

(***************************************************************************)
(* Claims about the total of the supplement days                           *)
(***************************************************************************)
\* C40: for a cluster that passed the validation, the supplement days
\* counted add up to the duration of the cluster plus one at most, and no
\* counter is negative
C40_DaysWithinDuration ==
    CountLoopDone
    => /\ SumOver(su.st.counters, SupplementTypes) <= su.agg.duration + 1
       /\ \A t \in SupplementTypes : su.st.counters[t] >= 0

\* a run ended by the last stay, where the patient died: a day for the
\* run, the nights less one and a day for the death
C40_Witness ==
    /\ CountLoopDone /\ Len(su.stays) = 2
    /\ su.kinds[1] = [unit |-> 10001, nights |-> 0, igs2 |-> 0]
    /\ su.kinds[2] = [unit |-> 10002, nights |-> 2, igs2 |-> 0]
    /\ su.stays[2].exit.mode = "9"
    /\ su.agg.duration = 2
    /\ su.st.counters["reasi"] = 1 /\ su.st.counters["si"] = 2
\* the run still pending at the end of the cluster
C40_PendingWitness ==
    /\ CountLoopDone /\ Len(su.stays) = 2
    /\ su.kinds[1] = [unit |-> 10002, nights |-> 2, igs2 |-> 0]
    /\ su.kinds[2] = [unit |-> 10001, nights |-> 0, igs2 |-> 0]
    /\ SumOver(su.st.counters, SupplementTypes) = su.agg.duration + 1

====
